---- MODULE Spec2Model ----
(***************************************************************************)
(* ZeroTrace secure-comm backend: key hierarchy (DEK store / rotation),    *)
(* device pairing, device authorization / revocation, key restore,        *)
(* wrapped session keys, message status, and the websocket                 *)
(* ConnectionManager.                                                      *)
(*                                                                         *)
(* Database tables are modelled by their committed contents.  A route     *)
(* handler that commits several times is a sequence of steps, one per     *)
(* commit, so the states between two commits of one handler are states    *)
(* of the model.  HTTP handlers of one process run one at a time (they    *)
(* are coroutines without suspension points); SpecRace adds several       *)
(* worker processes that share the database.  The coroutines of the       *)
(* ConnectionManager suspend at their awaits, where others run.           *)
(***************************************************************************)
EXTENDS Integers, Sequences, FiniteSets, TLC

\* ---------------------------------------------------------------- bounds
MaxVersion == 2
MaxSessions == 2
MaxPairings == 1
MaxLog == 3
NumWorkers == 2
NumDeviceIds == 6
MaxConnects == 7
MaxSendConnects == 3
MaxMessages == 1
MaxKeys == 2
MaxMailConnects == 1
MaxFallbacks == 2
MaxPingConnects == 2
MaxProbes == 2
MaxCalls == 1
MaxCallLogs == 2
MaxReceiptConnects == 2

\* ------------------------------------------------------- program constants
MAX_DEVICES_PER_USER == 5
PAIR_RATE_LIMIT == 5
max_retries == 3
delay == 10
StoreFailed == -1
WS_PING_INTERVAL == 30
WS_PONG_TIMEOUT == 10

\* ------------------------------------------------------------ input sets
Account == "u1"
Stranger == "u2"
Users == {Account, Stranger}
Devices == {"dA", "dB"}
Wraps == {"w1", "w2"}
EmptyWrap == ""
NullValue == "null"
IdentityWrapped == "wrapped_with_identity_key"
Versions == 1..MaxVersion
Tokens == 1..(MaxSessions + 1)
Workers == 1..NumWorkers
Booleans == {TRUE, FALSE}

VARIABLES
    deks,       \* table data_encryption_keys, in insertion order
    rotlog,     \* table key_rotation_log, in insertion order
    sessions,   \* table device_pairing_sessions; the index is the pairing token
    auths,      \* table device_authorizations
    wdeks,      \* table device_wrapped_deks
    pc,         \* the handler in progress between two of its commits
    resp,       \* the response of the handler that finished last
    rot,        \* SpecRace: per worker, the rotate_keys request in progress
    conns,      \* ConnectionManager.active_connections of one user (ordered dict)
    nconn,      \* number of websockets accepted so far (connection serial numbers)
    cpc,        \* connect() coroutines suspended at an await
    handlers,   \* websocket endpoints accepted and not yet returned
    spc,        \* the send_personal_message coroutine in progress
    sent,       \* outcome of the send_personal_message call that ended last
    presence,   \* the presence broadcast scheduled last
    msgs,       \* table messages: status and timestamps per message
    upc,        \* update_message_status threads between their read and commit
    ulast,      \* outcome of the update_message_status step that ran last
    skeys,      \* table encrypted_session_keys
    friend,     \* trusted_contacts: sender and recipient are mutual contacts
    wire,       \* message payloads a device of the recipient accepted
    tasks,      \* handle_encrypted_message / _retry_message_delivery in progress
    flush,      \* the _deliver_pending_messages coroutine in progress
    contact_cache,  \* ConnectionManager._contact_cache[user_id]; absent is {}
    fanout,     \* the presence update sent last, and the fallbacks so far
    pings,      \* per websocket, the _ping_loop task of its endpoint
    peers,      \* per websocket, the client and the transport behind it
    active_calls,   \* ConnectionManager.active_calls: call id -> call
    call_logs,  \* table call_logs, in insertion order
    calltasks,  \* handle_call_reject / handle_call_end after their del
    callout     \* the signalling frame sent to the caller last

keyVars == <<deks, rotlog, sessions, auths, wdeks, pc, resp>>
connVars == <<conns, nconn, cpc, handlers>>
sendVars == <<spc, sent, presence>>
dataVars == <<msgs, upc, ulast, skeys>>
mailVars == <<friend, wire, tasks, flush>>
presVars == <<contact_cache, fanout>>
pingVars == <<pings, peers>>
logVars == <<call_logs, calltasks, callout>>
callVars == <<active_calls, logVars>>
moreVars == <<pingVars, callVars>>
extVars == <<mailVars, presVars, moreVars>>
vars == <<deks, rotlog, sessions, auths, wdeks, pc, resp, rot, conns, nconn, cpc,
          handlers, spc, sent, presence, msgs, upc, ulast, skeys, friend, wire,
          tasks, flush, contact_cache, fanout, pings, peers,
          active_calls, call_logs, calltasks, callout>>

Idle == [op |-> "idle"]
NoResp == [op |-> "none", status |-> 0]
WorkerIdle == [at |-> "idle", expected |-> 0, cur |-> 0]
NoSend == [at |-> "idle"]
NoResult == [op |-> "none"]
NoPresence == [scheduled |-> FALSE, last |-> "none"]
NoFlush == [at |-> "idle"]
NoCalls == <<>>
NoFrame == [type |-> "none", call_id |-> 0]
NoFanout == [event |-> "none", to |-> {}, fallbacks |-> 0]

\* ===================================================== DEK repository ====

\* Rows the query of get_active_dek matches; .first() returns one of them.
get_active_dek(tbl, u) ==
    {i \in DOMAIN tbl : tbl[i].user_id = u /\ tbl[i].is_active}

ActiveVersions(tbl, u) == {tbl[i].dek_version : i \in get_active_dek(tbl, u)}

log_key_rotation(log, u, rotation_type, success) ==
    Append(log, [user_id |-> u, rotation_type |-> rotation_type, success |-> success])

\* SecureProfileRepository.store_dek: deactivate every active row, insert.
repo_store_dek(tbl, u, v) ==
    Append([i \in DOMAIN tbl |->
               IF tbl[i].user_id = u /\ tbl[i].is_active
               THEN [tbl[i] EXCEPT !.is_active = FALSE] ELSE tbl[i]],
           [user_id |-> u, dek_version |-> v, is_active |-> TRUE])

\* rotate_dek that inserts the new row without deactivating the current one.
rotate_dek_keeps_current(tbl, u, old_dek_version, cur) ==
    IF cur # 0 /\ tbl[cur].dek_version # old_dek_version
    THEN [raised |-> TRUE, deks |-> tbl, new_version |-> 0]
    ELSE LET new_version == (IF cur # 0 THEN tbl[cur].dek_version ELSE 0) + 1
         IN [raised |-> FALSE,
             deks |-> Append(tbl, [user_id |-> u, dek_version |-> new_version,
                                   is_active |-> TRUE]),
             new_version |-> new_version]

\* SecureProfileRepository.rotate_dek, given the row `cur` its query returned
\* (0: no row).  raised: the ValueError of the version check.
rotate_dek(tbl, u, old_dek_version, cur) ==
    IF cur # 0 /\ tbl[cur].dek_version # old_dek_version
    THEN [raised |-> TRUE, deks |-> tbl, new_version |-> 0]
    ELSE LET new_version == (IF cur # 0 THEN tbl[cur].dek_version ELSE 0) + 1
             deact == [i \in DOMAIN tbl |->
                          IF i = cur THEN [tbl[i] EXCEPT !.is_active = FALSE]
                          ELSE tbl[i]]
         IN [raised |-> FALSE,
             deks |-> Append(deact, [user_id |-> u, dek_version |-> new_version,
                                     is_active |-> TRUE]),
             new_version |-> new_version]

\* ========================================================= DEK routes ====

\* POST /dek/store that skips the check for an active DEK.
store_dek_unchecked(u, v) ==
    /\ pc = Idle
    /\ deks' = repo_store_dek(deks, u, v)
    /\ pc' = [op |-> "store_dek", user_id |-> u, dek_version |-> v]
    /\ UNCHANGED <<resp, rotlog, sessions, auths, wdeks, rot, connVars, sendVars,
                   dataVars, extVars>>

\* POST /dek/store, up to the commit of repo.store_dek.
store_dek(u, v) ==
    /\ pc = Idle
    /\ IF get_active_dek(deks, u) # {}
       THEN /\ resp' = [op |-> "store_dek", status |-> 409]
            /\ UNCHANGED <<deks, pc>>
       ELSE /\ deks' = repo_store_dek(deks, u, v)
            /\ pc' = [op |-> "store_dek", user_id |-> u, dek_version |-> v]
            /\ UNCHANGED resp
    /\ UNCHANGED <<rotlog, sessions, auths, wdeks, rot, connVars, sendVars, dataVars, extVars>>

\* POST /dek/store: the audit entry, second commit.
store_dek_log ==
    /\ pc.op = "store_dek"
    /\ rotlog' = log_key_rotation(rotlog, pc.user_id, "dek_created", TRUE)
    /\ resp' = [op |-> "store_dek", status |-> 201]
    /\ pc' = Idle
    /\ UNCHANGED <<deks, sessions, auths, wdeks, rot, connVars, sendVars, dataVars, extVars>>

\* POST /keys/rotate in one process: both reads and the commit of rotate_dek.
rotate_keys(u, n) ==
    /\ pc = Idle
    /\ IF get_active_dek(deks, u) = {}
       THEN /\ resp' = [op |-> "rotate_keys", status |-> 400, user_id |-> u,
                        expected |-> n]
            /\ UNCHANGED <<deks, pc>>
       ELSE \E current_dek \in get_active_dek(deks, u) :
              IF deks[current_dek].dek_version # n
              THEN /\ resp' = [op |-> "rotate_keys", status |-> 409, user_id |-> u,
                               expected |-> n]
                   /\ UNCHANGED <<deks, pc>>
              ELSE \E cur \in get_active_dek(deks, u) :
                     LET r == rotate_dek(deks, u, n, cur) IN
                     /\ deks' = r.deks
                     /\ pc' = [op |-> "rotate_keys", user_id |-> u, expected |-> n,
                               raised |-> r.raised, new_version |-> r.new_version]
                     /\ UNCHANGED resp
    /\ UNCHANGED <<rotlog, sessions, auths, wdeks, rot, connVars, sendVars, dataVars, extVars>>

\* POST /keys/rotate: the audit entry (success, or failure after rollback).
rotate_keys_log ==
    /\ pc.op = "rotate_keys"
    /\ rotlog' = log_key_rotation(rotlog, pc.user_id, "full", ~pc.raised)
    /\ resp' = [op |-> "rotate_keys", status |-> IF pc.raised THEN 500 ELSE 200,
                user_id |-> pc.user_id, expected |-> pc.expected]
    /\ pc' = Idle
    /\ UNCHANGED <<deks, sessions, auths, wdeks, rot, connVars, sendVars, dataVars, extVars>>


\* ================================================= pairing repository ====

PubKeyOf(d) == <<"pk", d>>
\* sha256(public key).hexdigest()[:16]
fingerprint(public_key) == <<"fp", public_key>>

SetStatus(s, st) ==
    IF s.status = st THEN s
    ELSE [s EXCEPT !.status = st, !.hist = Append(@, st)]

get_pairing_session(tbl, t) == IF t \in DOMAIN tbl THEN {t} ELSE {}

\* DeviceSyncRepository.create_pairing_session: expire the user's pending
\* sessions, insert a pending one under a fresh token.
create_pairing_session(tbl, u) ==
    Append([i \in DOMAIN tbl |->
               IF tbl[i].user_id = u /\ tbl[i].status = "pending"
               THEN SetStatus(tbl[i], "expired") ELSE tbl[i]],
           [user_id |-> u, status |-> "pending", past |-> FALSE,
            new_device_id |-> NullValue, new_device_public_key |-> NullValue,
            new_device_fingerprint |-> NullValue,
            wrapped_dek_for_device |-> NullValue,
            hist |-> <<"pending">>])

\* scan_pairing_session without the check that the session is pending.
scan_pairing_session_any_status(tbl, t, d) ==
    IF get_pairing_session(tbl, t) = {} THEN [ok |-> FALSE, sessions |-> tbl]
    ELSE IF tbl[t].past
    THEN [ok |-> FALSE,
          sessions |-> [tbl EXCEPT ![t] = SetStatus(@, "expired")]]
    ELSE [ok |-> TRUE,
          sessions |-> [tbl EXCEPT ![t] =
              [SetStatus(@, "scanned") EXCEPT
                  !.new_device_id = d,
                  !.new_device_public_key = PubKeyOf(d),
                  !.new_device_fingerprint = fingerprint(PubKeyOf(d))]]]

\* scan_pairing_session without the comparison of expires_at with the clock.
scan_pairing_session_any_time(tbl, t, d) ==
    IF get_pairing_session(tbl, t) = {} THEN [ok |-> FALSE, sessions |-> tbl]
    ELSE IF tbl[t].status # "pending" THEN [ok |-> FALSE, sessions |-> tbl]
    ELSE [ok |-> TRUE,
          sessions |-> [tbl EXCEPT ![t] =
              [SetStatus(@, "scanned") EXCEPT
                  !.new_device_id = d,
                  !.new_device_public_key = PubKeyOf(d),
                  !.new_device_fingerprint = fingerprint(PubKeyOf(d))]]]

\* DeviceSyncRepository.scan_pairing_session; ok: a session is returned.
scan_pairing_session(tbl, t, d) ==
    IF get_pairing_session(tbl, t) = {} THEN [ok |-> FALSE, sessions |-> tbl]
    ELSE IF tbl[t].status # "pending" THEN [ok |-> FALSE, sessions |-> tbl]
    ELSE IF tbl[t].past
    THEN [ok |-> FALSE,
          sessions |-> [tbl EXCEPT ![t] = SetStatus(@, "expired")]]
    ELSE [ok |-> TRUE,
          sessions |-> [tbl EXCEPT ![t] =
              [SetStatus(@, "scanned") EXCEPT
                  !.new_device_id = d,
                  !.new_device_public_key = PubKeyOf(d),
                  !.new_device_fingerprint = fingerprint(PubKeyOf(d))]]]

\* approve_pairing without the check that the session is scanned.
approve_pairing_unscanned(tbl, t, u, w) ==
    IF get_pairing_session(tbl, t) = {} \/ tbl[t].user_id # u
    THEN [ok |-> FALSE, sessions |-> tbl]
    ELSE [ok |-> TRUE,
          sessions |-> [tbl EXCEPT ![t] =
              [SetStatus(@, "approved") EXCEPT !.wrapped_dek_for_device = w]]]

\* approve_pairing without the check that the caller owns the session.
approve_pairing_any_user(tbl, t, u, w) ==
    IF get_pairing_session(tbl, t) = {} THEN [ok |-> FALSE, sessions |-> tbl]
    ELSE IF tbl[t].status # "scanned" THEN [ok |-> FALSE, sessions |-> tbl]
    ELSE [ok |-> TRUE,
          sessions |-> [tbl EXCEPT ![t] =
              [SetStatus(@, "approved") EXCEPT !.wrapped_dek_for_device = w]]]

\* DeviceSyncRepository.approve_pairing
approve_pairing(tbl, t, u, w) ==
    IF get_pairing_session(tbl, t) = {} \/ tbl[t].user_id # u
    THEN [ok |-> FALSE, sessions |-> tbl]
    ELSE IF tbl[t].status # "scanned" THEN [ok |-> FALSE, sessions |-> tbl]
    ELSE [ok |-> TRUE,
          sessions |-> [tbl EXCEPT ![t] =
              [SetStatus(@, "approved") EXCEPT !.wrapped_dek_for_device = w]]]

\* DeviceSyncRepository.complete_pairing
complete_pairing(tbl, t, u) ==
    IF get_pairing_session(tbl, t) = {} \/ tbl[t].user_id # u
    THEN [ok |-> FALSE, sessions |-> tbl]
    ELSE IF tbl[t].status # "approved" THEN [ok |-> FALSE, sessions |-> tbl]
    ELSE [ok |-> TRUE,
          sessions |-> [tbl EXCEPT ![t] = SetStatus(@, "completed")]]

\* DeviceSyncRepository.reject_pairing
reject_pairing(tbl, t, u) ==
    IF get_pairing_session(tbl, t) = {} \/ tbl[t].user_id # u
    THEN [ok |-> FALSE, sessions |-> tbl]
    ELSE [ok |-> TRUE,
          sessions |-> [tbl EXCEPT ![t] = SetStatus(@, "rejected")]]

\* ================================================== device repository ====

get_device(tbl, u, d) == {a \in tbl : a.user_id = u /\ a.device_id = d}

get_authorized_devices(tbl, u) == {a \in tbl : a.user_id = u /\ a.is_active}

is_device_authorized(tbl, u, d) ==
    \E a \in tbl : a.user_id = u /\ a.device_id = d /\ a.is_active

\* DeviceSyncRepository.authorize_device (upsert on (user_id, device_id))
authorize_device(tbl, u, d) ==
    (tbl \ get_device(tbl, u, d))
        \cup {[user_id |-> u, device_id |-> d, is_active |-> TRUE]}

get_device_wrapped_dek(tbl, u, d) ==
    {w \in tbl : w.user_id = u /\ w.device_id = d /\ w.is_active}

Deactivated(rows) == {[w EXCEPT !.is_active = FALSE] : w \in rows}

\* store_device_wrapped_dek that inserts without deactivating the prior entry.
store_device_wrapped_dek_keeps_prior(tbl, u, d, w, v) ==
    IF \E x \in tbl : x.user_id = u /\ x.device_id = d /\ x.dek_version = v
    THEN [raised |-> TRUE, wdeks |-> tbl]
    ELSE [raised |-> FALSE,
          wdeks |-> tbl \cup {[user_id |-> u, device_id |-> d, dek_version |-> v,
                               is_active |-> TRUE, wrapped_dek |-> w]}]

\* DeviceSyncRepository.store_device_wrapped_dek.  raised: the insert breaks
\* uq_device_dek_version and the transaction (update and insert) is rolled back.
store_device_wrapped_dek(tbl, u, d, w, v) ==
    IF \E x \in tbl : x.user_id = u /\ x.device_id = d /\ x.dek_version = v
    THEN [raised |-> TRUE, wdeks |-> tbl]
    ELSE [raised |-> FALSE,
          wdeks |-> (tbl \ get_device_wrapped_dek(tbl, u, d))
                    \cup Deactivated(get_device_wrapped_dek(tbl, u, d))
                    \cup {[user_id |-> u, device_id |-> d, dek_version |-> v,
                           is_active |-> TRUE, wrapped_dek |-> w]}]

\* revoke_device_dek that leaves the device's wrappings active.
revoke_device_dek_keeps_active(tbl, u, d) == tbl

\* DeviceSyncRepository.revoke_device_dek
revoke_device_dek(tbl, u, d) ==
    (tbl \ get_device_wrapped_dek(tbl, u, d))
        \cup Deactivated(get_device_wrapped_dek(tbl, u, d))

\* revoke_device whose first commit carries the wrappings only and whose second
\* commit carries the authorization.
revoke_device_two_commits(atbl, wtbl, u, d) ==
    IF ~is_device_authorized(atbl, u, d)
    THEN [found |-> FALSE, commits |-> <<>>]
    ELSE [found |-> TRUE,
          commits |-> << [auths |-> atbl,
                          wdeks |-> revoke_device_dek(wtbl, u, d)],
                         [auths |-> (atbl \ get_device(atbl, u, d))
                                    \cup Deactivated(get_device(atbl, u, d)),
                          wdeks |-> revoke_device_dek(wtbl, u, d)] >>]

\* DeviceSyncRepository.revoke_device: the tables after each of its two commits.
\* The authorization change is pending in the session when revoke_device_dek
\* commits, so that commit carries both changes and the second one none.
revoke_device(atbl, wtbl, u, d) ==
    IF ~is_device_authorized(atbl, u, d)
    THEN [found |-> FALSE, commits |-> <<>>]
    ELSE LET done == [auths |-> (atbl \ get_device(atbl, u, d))
                                \cup Deactivated(get_device(atbl, u, d)),
                      wdeks |-> revoke_device_dek(wtbl, u, d)]
         IN [found |-> TRUE, commits |-> <<done, done>>]

\* ====================================================== pairing routes ====

\* POST /device/pair/init
pair_init(u) ==
    /\ pc = Idle
    /\ IF Cardinality({i \in DOMAIN sessions : sessions[i].user_id = u})
              >= PAIR_RATE_LIMIT
       THEN /\ resp' = [op |-> "pair_init", status |-> 429]
            /\ UNCHANGED sessions
       ELSE /\ sessions' = create_pairing_session(sessions, u)
            /\ resp' = [op |-> "pair_init", status |-> 200,
                        pairing_token |-> Len(sessions) + 1]
    /\ UNCHANGED <<deks, rotlog, auths, wdeks, pc, rot, connVars, sendVars, dataVars, extVars>>

\* The clock passes expires_at of session t (and of the sessions made before it).
expire_time(t) ==
    /\ pc = Idle
    /\ t \in DOMAIN sessions
    /\ ~sessions[t].past
    /\ sessions' = [i \in DOMAIN sessions |->
                       IF i <= t THEN [sessions[i] EXCEPT !.past = TRUE]
                       ELSE sessions[i]]
    /\ UNCHANGED <<deks, rotlog, auths, wdeks, pc, resp, rot, connVars, sendVars, dataVars,
                   extVars>>

\* POST /device/pair/scan: the ownership check comes after the repository call.
pair_scan(u, t, d) ==
    /\ pc = Idle
    /\ LET r == scan_pairing_session(sessions, t, d) IN
       /\ sessions' = r.sessions
       /\ resp' = [op |-> "pair_scan",
                   status |-> IF ~r.ok THEN 400
                              ELSE IF r.sessions[t].user_id # u THEN 403
                              ELSE 200]
    /\ UNCHANGED <<deks, rotlog, auths, wdeks, pc, rot, connVars, sendVars, dataVars, extVars>>

\* POST /device/pair/approve
pair_approve(u, t, w) ==
    /\ pc = Idle
    /\ LET r == approve_pairing(sessions, t, u, w) IN
       /\ sessions' = r.sessions
       /\ resp' = [op |-> "pair_approve", pairing_token |-> t,
                   status |-> IF r.ok THEN 200 ELSE 400]
    /\ UNCHANGED <<deks, rotlog, auths, wdeks, pc, rot, connVars, sendVars, dataVars, extVars>>

Falsy(x) == x = NullValue \/ x = EmptyWrap

\* POST /device/pair/complete that does not look at the stored wrapped DEK.
pair_complete_any_wrap(u, t) ==
    /\ pc = Idle
    /\ IF \/ get_pairing_session(sessions, t) = {}
          \/ sessions[t].user_id # u
          \/ sessions[t].status # "approved"
       THEN /\ resp' = [op |-> "pair_complete", pairing_token |-> t,
                        status |-> 400]
            /\ UNCHANGED <<sessions, pc>>
       ELSE LET r == complete_pairing(sessions, t, u) IN
            /\ sessions' = r.sessions
            /\ IF r.ok
               THEN /\ pc' = [op |-> "pair_complete", at |-> "authorize",
                              user_id |-> u, pairing_token |-> t]
                    /\ UNCHANGED resp
               ELSE /\ resp' = [op |-> "pair_complete", pairing_token |-> t,
                                status |-> 500]
                    /\ UNCHANGED pc
    /\ UNCHANGED <<deks, rotlog, auths, wdeks, rot, connVars, sendVars, dataVars, extVars>>

\* POST /device/pair/complete, up to the commit of complete_pairing.
pair_complete(u, t) ==
    /\ pc = Idle
    /\ IF \/ get_pairing_session(sessions, t) = {}
          \/ sessions[t].user_id # u
          \/ sessions[t].status # "approved"
          \/ Falsy(sessions[t].wrapped_dek_for_device)
       THEN /\ resp' = [op |-> "pair_complete", pairing_token |-> t,
                        status |-> 400]
            /\ UNCHANGED <<sessions, pc>>
       ELSE LET r == complete_pairing(sessions, t, u) IN
            /\ sessions' = r.sessions
            /\ IF r.ok
               THEN /\ pc' = [op |-> "pair_complete", at |-> "authorize",
                              user_id |-> u, pairing_token |-> t]
                    /\ UNCHANGED resp
               ELSE /\ resp' = [op |-> "pair_complete", pairing_token |-> t,
                                status |-> 500]
                    /\ UNCHANGED pc
    /\ UNCHANGED <<deks, rotlog, auths, wdeks, rot, connVars, sendVars, dataVars, extVars>>

\* POST /device/pair/complete: the commit of authorize_device.
pair_complete_authorize ==
    /\ pc.op = "pair_complete"
    /\ pc.at = "authorize"
    /\ auths' = authorize_device(auths, pc.user_id,
                                 sessions[pc.pairing_token].new_device_id)
    /\ pc' = [pc EXCEPT !.at = "wrap"]
    /\ UNCHANGED <<deks, rotlog, sessions, wdeks, resp, rot, connVars, sendVars, dataVars,
                   extVars>>

\* POST /device/pair/complete: the commit of store_device_wrapped_dek.
pair_complete_wrap ==
    /\ pc.op = "pair_complete"
    /\ pc.at = "wrap"
    /\ LET s == sessions[pc.pairing_token]
           act == ActiveVersions(deks, pc.user_id)
       IN \E dek_version \in (IF act = {} THEN {1} ELSE act) :
            LET r == store_device_wrapped_dek(wdeks, pc.user_id, s.new_device_id,
                                              s.wrapped_dek_for_device, dek_version)
            IN /\ wdeks' = r.wdeks
               /\ resp' = [op |-> "pair_complete",
                           pairing_token |-> pc.pairing_token,
                           status |-> IF r.raised THEN 500 ELSE 200,
                           dek_version |-> dek_version]
    /\ pc' = Idle
    /\ UNCHANGED <<deks, rotlog, sessions, auths, rot, connVars, sendVars, dataVars, extVars>>

\* GET /device/pair/status
pair_status(u, t) ==
    /\ pc = Idle
    /\ IF get_pairing_session(sessions, t) = {} \/ sessions[t].user_id # u
       THEN /\ resp' = [op |-> "pair_status",
                        status |-> 404, session_status |-> NullValue]
            /\ UNCHANGED sessions
       ELSE LET s == IF sessions[t].status = "pending" /\ sessions[t].past
                     THEN SetStatus(sessions[t], "expired") ELSE sessions[t]
            IN /\ sessions' = [sessions EXCEPT ![t] = s]
               /\ resp' = [op |-> "pair_status",
                           status |-> 200, session_status |-> s.status]
    /\ UNCHANGED <<deks, rotlog, auths, wdeks, pc, rot, connVars, sendVars, dataVars, extVars>>

\* DeviceSyncRepository.reject_pairing, called directly (no route uses it).
pair_reject(u, t) ==
    /\ pc = Idle
    /\ LET r == reject_pairing(sessions, t, u) IN
       /\ sessions' = r.sessions
       /\ resp' = [op |-> "pair_reject",
                   status |-> IF r.ok THEN 200 ELSE 400]
    /\ UNCHANGED <<deks, rotlog, auths, wdeks, pc, rot, connVars, sendVars, dataVars, extVars>>

\* ======================================================= device routes ====

\* POST /device/register
register_device(u, d) ==
    /\ pc = Idle
    /\ auths' = authorize_device(auths, u, d)
    /\ resp' = [op |-> "register_device", device_id |-> d, status |-> 201]
    /\ UNCHANGED <<deks, rotlog, sessions, wdeks, pc, rot, connVars, sendVars, dataVars, extVars>>

\* POST /device/revoke without the refusal for the only active device.
revoke_any_device(u, d, rotate) ==
    /\ pc = Idle
    /\ LET r == revoke_device(auths, wdeks, u, d) IN
       IF ~r.found
       THEN /\ resp' = [op |-> "revoke", device_id |-> d, status |-> 404]
            /\ UNCHANGED <<auths, wdeks, pc>>
       ELSE /\ auths' = Head(r.commits).auths
            /\ wdeks' = Head(r.commits).wdeks
            /\ pc' = [op |-> "revoke", user_id |-> u, device_id |-> d,
                      rotate_dek |-> rotate, commits |-> Tail(r.commits)]
            /\ UNCHANGED resp
    /\ UNCHANGED <<deks, rotlog, sessions, rot, connVars, sendVars, dataVars, extVars>>

\* POST /device/revoke, up to the first commit of repo.revoke_device.
revoke(u, d, rotate) ==
    /\ pc = Idle
    /\ IF /\ Cardinality(get_authorized_devices(auths, u)) <= 1
          /\ \E a \in get_device(auths, u, d) : a.is_active
       THEN /\ resp' = [op |-> "revoke", device_id |-> d, status |-> 400]
            /\ UNCHANGED <<auths, wdeks, pc>>
       ELSE LET r == revoke_device(auths, wdeks, u, d) IN
            IF ~r.found
            THEN /\ resp' = [op |-> "revoke", device_id |-> d, status |-> 404]
                 /\ UNCHANGED <<auths, wdeks, pc>>
            ELSE /\ auths' = Head(r.commits).auths
                 /\ wdeks' = Head(r.commits).wdeks
                 /\ pc' = [op |-> "revoke", user_id |-> u, device_id |-> d,
                           rotate_dek |-> rotate, commits |-> Tail(r.commits)]
                 /\ UNCHANGED resp
    /\ UNCHANGED <<deks, rotlog, sessions, rot, connVars, sendVars, dataVars, extVars>>

\* POST /device/revoke: what follows the first commit: a further commit of
\* repo.revoke_device if it has one, else the audit entries and the response.
revoke_next ==
    /\ pc.op = "revoke"
    /\ IF pc.commits # <<>>
       THEN /\ auths' = Head(pc.commits).auths
            /\ wdeks' = Head(pc.commits).wdeks
            /\ pc' = [pc EXCEPT !.commits = Tail(@)]
            /\ UNCHANGED <<rotlog, resp>>
       ELSE /\ rotlog' = IF pc.rotate_dek /\ get_active_dek(deks, pc.user_id) # {}
                         THEN log_key_rotation(rotlog, pc.user_id,
                                               "dek_rotation_pending", TRUE)
                         ELSE rotlog
            /\ resp' = [op |-> "revoke", device_id |-> pc.device_id, status |-> 200]
            /\ pc' = Idle
            /\ UNCHANGED <<auths, wdeks>>
    /\ UNCHANGED <<deks, sessions, rot, connVars, sendVars, dataVars, extVars>>

\* POST /device/wrapped
store_wrapped_dek(u, d, w, v) ==
    /\ pc = Idle
    /\ IF ~is_device_authorized(auths, u, d)
       THEN /\ resp' = [op |-> "store_wrapped_dek", device_id |-> d, status |-> 403]
            /\ UNCHANGED wdeks
       ELSE LET r == store_device_wrapped_dek(wdeks, u, d, w, v) IN
            /\ wdeks' = r.wdeks
            /\ resp' = [op |-> "store_wrapped_dek", device_id |-> d,
                        status |-> IF r.raised THEN 500 ELSE 201]
    /\ UNCHANGED <<deks, rotlog, sessions, auths, pc, rot, connVars, sendVars, dataVars, extVars>>

\* POST /keys/restore
restore_keys(u, d) ==
    /\ pc = Idle
    /\ LET authorized == is_device_authorized(auths, u, d)
           device_deks == get_device_wrapped_dek(wdeks, u, d)
           user_deks == get_active_dek(deks, u)
       IN IF device_deks # {}
          THEN \E device_dek \in device_deks :
                 resp' = [op |-> "restore_keys", device_id |-> d, status |-> 200,
                          source |-> "device",
                          wrapped_dek |-> device_dek.wrapped_dek,
                          device_authorized |-> TRUE]
          ELSE IF user_deks # {}
          THEN resp' = [op |-> "restore_keys", device_id |-> d, status |-> 200,
                          source |-> "user",
                          wrapped_dek |-> IdentityWrapped,
                          device_authorized |-> authorized]
          ELSE resp' = [op |-> "restore_keys", device_id |-> d, status |-> 404]
    /\ UNCHANGED <<deks, rotlog, sessions, auths, wdeks, pc, rot, connVars, sendVars, dataVars,
                   extVars>>


\* ====================================================== specification ====

Init ==
    /\ deks = <<>>
    /\ rotlog = <<>>
    /\ sessions = <<>>
    /\ auths = {}
    /\ wdeks = {}
    /\ pc = Idle
    /\ resp = NoResp
    /\ rot = [w \in Workers |-> WorkerIdle]
    /\ conns = <<>>
    /\ nconn = 0
    /\ cpc = {}
    /\ handlers = {}
    /\ spc = NoSend
    /\ sent = NoResult
    /\ presence = NoPresence
    /\ msgs = <<>>
    /\ upc = {}
    /\ ulast = NoResult
    /\ skeys = <<>>
    /\ friend = FALSE
    /\ wire = {}
    /\ tasks = {}
    /\ flush = NoFlush
    /\ contact_cache = {}
    /\ fanout = NoFanout
    /\ pings = <<>>
    /\ peers = <<>>
    /\ active_calls = NoCalls
    /\ call_logs = <<>>
    /\ calltasks = {}
    /\ callout = NoFrame

\* Caps of the unbounded counters: the audit log and the DEK version.
LogRoom == Len(rotlog) < MaxLog
VersionRoom(u, n) == n \in ActiveVersions(deks, u) => n < MaxVersion

\* Key hierarchy: DEK store and rotation by either account.
NextDek ==
    \/ \E u \in Users, v \in Versions : LogRoom /\ store_dek(u, v)
    \/ store_dek_log
    \/ \E u \in Users, n \in Versions :
          LogRoom /\ VersionRoom(u, n) /\ rotate_keys(u, n)
    \/ rotate_keys_log

SpecDek == Init /\ [][NextDek]_vars

\* Pairing state machine, called by the owning account and by another one.
NextPair ==
    \/ Len(sessions) < MaxSessions /\ pair_init(Account)
    \/ \E t \in Tokens : expire_time(t)
    \/ \E u \in Users, t \in Tokens : pair_scan(u, t, "dA")
    \/ \E u \in Users, t \in Tokens, w \in {"w1", EmptyWrap} :
          pair_approve(u, t, w)
    \/ \E u \in Users, t \in Tokens : pair_complete(u, t)
    \/ pair_complete_authorize
    \/ pair_complete_wrap
    \/ \E u \in Users, t \in Tokens : pair_status(u, t)
    \/ \E u \in Users, t \in Tokens : pair_reject(u, t)

SpecPair == Init /\ [][NextPair]_vars

\* Devices of one account: registration, pairing, per-device wrappings,
\* revocation and key restore, with the account's DEK being stored and rotated.
NextDevice ==
    \/ LogRoom /\ store_dek(Account, 1)
    \/ store_dek_log
    \/ \E n \in Versions :
          LogRoom /\ VersionRoom(Account, n) /\ rotate_keys(Account, n)
    \/ rotate_keys_log
    \/ Len(sessions) < MaxPairings /\ pair_init(Account)
    \/ \E t \in Tokens, d \in Devices : pair_scan(Account, t, d)
    \/ \E t \in Tokens : pair_approve(Account, t, "w2")
    \/ \E t \in Tokens : pair_complete(Account, t)
    \/ pair_complete_authorize
    \/ pair_complete_wrap
    \/ \E d \in Devices : register_device(Account, d)
    \/ \E d \in Devices : revoke(Account, d, FALSE)
    \/ revoke_next
    \/ \E d \in Devices, v \in ActiveVersions(deks, Account) \cup {1} :
          store_wrapped_dek(Account, d, "w1", v)
    \/ \E d \in Devices : restore_keys(Account, d)

SpecDevice == Init /\ [][NextDevice]_vars

\* Authorizations and per-device wrappings of one account, written through
\* register / store-wrapped (the same two repository calls pairing completion
\* makes, here with any handler in between), revoked and restored.
NextRevoke ==
    \/ LogRoom /\ store_dek(Account, 1)
    \/ store_dek_log
    \/ \E n \in Versions :
          LogRoom /\ VersionRoom(Account, n) /\ rotate_keys(Account, n)
    \/ rotate_keys_log
    \/ \E d \in Devices : register_device(Account, d)
    \/ \E d \in Devices, rotate \in Booleans :
          (rotate => LogRoom) /\ revoke(Account, d, rotate)
    \/ revoke_next
    \/ \E d \in Devices, v \in Versions : store_wrapped_dek(Account, d, "w1", v)
    \/ \E d \in Devices : restore_keys(Account, d)

SpecRevoke == Init /\ [][NextRevoke]_vars

\* Per-device wrappings of one account whose first device registers and whose
\* second device is paired: written by the wrapped-DEK route and by pairing
\* completion, and revoked.
NextWrap ==
    \/ register_device(Account, "dA")
    \/ Len(sessions) < MaxPairings /\ pair_init(Account)
    \/ \E t \in Tokens : pair_scan(Account, t, "dB")
    \/ \E t \in Tokens : pair_approve(Account, t, "w2")
    \/ \E t \in Tokens : pair_complete(Account, t)
    \/ pair_complete_authorize
    \/ pair_complete_wrap
    \/ \E d \in Devices, v \in Versions : store_wrapped_dek(Account, d, "w1", v)
    \/ \E d \in Devices : revoke(Account, d, FALSE)
    \/ revoke_next

SpecWrap == Init /\ [][NextWrap]_vars

\* The same account, whose second device is revoked and paired again.
NextRepair ==
    \/ register_device(Account, "dA")
    \/ Len(sessions) < MaxSessions /\ pair_init(Account)
    \/ \E t \in Tokens : pair_scan(Account, t, "dB")
    \/ \E t \in Tokens : pair_approve(Account, t, "w2")
    \/ \E t \in Tokens : pair_complete(Account, t)
    \/ pair_complete_authorize
    \/ pair_complete_wrap
    \/ \E d \in Devices : revoke(Account, d, FALSE)
    \/ revoke_next

SpecRepair == Init /\ [][NextRepair]_vars

\* ============================ rotate_keys in several worker processes ====
\* Each worker has its own database session; a query sees the rows committed
\* so far, and the writes of rotate_dek reach the table at its commit.

InFlight == {w \in Workers : rot[w].at # "idle"}

\* rotate_keys lines 160-179: the route's read of the active DEK and its checks.
race_begin(w, u, n) ==
    /\ rot[w].at = "idle"
    /\ IF get_active_dek(deks, u) = {}
       THEN /\ resp' = [op |-> "rotate_keys", status |-> 400, user_id |-> u,
                        expected |-> n]
            /\ UNCHANGED rot
       ELSE \E current_dek \in get_active_dek(deks, u) :
              IF deks[current_dek].dek_version # n
              THEN /\ resp' = [op |-> "rotate_keys", status |-> 409, user_id |-> u,
                               expected |-> n]
                   /\ UNCHANGED rot
              ELSE /\ rot' = [rot EXCEPT ![w] =
                                 [at |-> "checked", expected |-> n, cur |-> 0]]
                   /\ UNCHANGED resp
    /\ UNCHANGED <<deks, rotlog, sessions, auths, wdeks, pc, connVars, sendVars, dataVars,
                   extVars>>

\* rotate_dek lines 106-127: its own read of the active DEK, the version check,
\* and the changes it leaves pending in the session.
race_read(w, u) ==
    /\ rot[w].at = "checked"
    /\ \E cur \in (IF get_active_dek(deks, u) = {} THEN {0}
                   ELSE get_active_dek(deks, u)) :
          rot' = [rot EXCEPT ![w] =
                     [at |-> IF rotate_dek(deks, u, rot[w].expected, cur).raised
                             THEN "raised" ELSE "pending",
                      expected |-> rot[w].expected,
                      cur |-> cur]]
    /\ UNCHANGED <<deks, rotlog, sessions, auths, wdeks, pc, resp, connVars, sendVars, dataVars,
                   extVars>>

\* rotate_dek lines 128-131: the commit writes the pending changes.
race_commit(w, u) ==
    /\ rot[w].at = "pending"
    /\ deks' = rotate_dek(deks, u, rot[w].expected, rot[w].cur).deks
    /\ rot' = [rot EXCEPT ![w] = [@ EXCEPT !.at = "committed"]]
    /\ UNCHANGED <<rotlog, sessions, auths, wdeks, pc, resp, connVars, sendVars, dataVars,
                   extVars>>

\* rotate_keys lines 218-261: the audit entry and the response.
race_log(w, u) ==
    /\ rot[w].at \in {"committed", "raised"}
    /\ rotlog' = log_key_rotation(rotlog, u, "full", rot[w].at = "committed")
    /\ resp' = [op |-> "rotate_keys",
                status |-> IF rot[w].at = "committed" THEN 200 ELSE 500,
                user_id |-> u, expected |-> rot[w].expected]
    /\ rot' = [rot EXCEPT ![w] = WorkerIdle]
    /\ UNCHANGED <<deks, sessions, auths, wdeks, pc, connVars, sendVars, dataVars, extVars>>

NextRace ==
    \/ \E v \in Versions : LogRoom /\ store_dek(Account, v)
    \/ store_dek_log
    \/ \E w \in Workers, n \in Versions :
          /\ Len(rotlog) + Cardinality(InFlight) < MaxLog
          /\ VersionRoom(Account, n)
          /\ race_begin(w, Account, n)
    \/ \E w \in Workers : race_read(w, Account)
    \/ \E w \in Workers : race_commit(w, Account)
    \/ \E w \in Workers : race_log(w, Account)

SpecRace == Init /\ [][NextRace]_vars

\* ================================================== ConnectionManager ====
\* conns is active_connections[user_id]: a dict in insertion order, a sequence
\* of slots [device_id, ws]; ws is the serial number of the websocket.

DeviceIds == 1..NumDeviceIds
\* device_id="" in the query string: not None, and falsy.
EmptyDeviceId == 0

Keys(c) == {c[i].device_id : i \in DOMAIN c}
Sockets(c) == {c[i].ws : i \in DOMAIN c}

\* dict.pop(device_id, None)
Pop(c, d) == SelectSeq(c, LAMBDA slot : slot.device_id # d)

\* dict[device_id] = ws: an existing key keeps its place in the order.
SetItem(c, d, ws) ==
    IF d \in Keys(c)
    THEN [i \in DOMAIN c |-> IF c[i].device_id = d
                              THEN [device_id |-> d, ws |-> ws] ELSE c[i]]
    ELSE Append(c, [device_id |-> d, ws |-> ws])

\* The device ids a client may send: one in use, or one new id.
KnownIds == Keys(conns) \cup {h.device_id : h \in handlers}
ClientIds == KnownIds \cup {d \in DeviceIds : \A e \in DeviceIds \ KnownIds : d <= e}

\* ConnectionManager.connect lines 132-152, up to its first suspension:
\* at the limit the oldest slot is popped and the coroutine awaits old_ws.close().
connect(d) ==
    /\ nconn < MaxConnects
    /\ nconn' = nconn + 1
    /\ handlers' = handlers \cup {[ws |-> nconn + 1, device_id |-> d]}
    /\ IF Len(conns) >= MAX_DEVICES_PER_USER
       THEN LET oldest_device == Head(conns).device_id IN
            /\ conns' = Pop(conns, oldest_device)
            /\ cpc' = cpc \cup {[ws |-> nconn + 1, device_id |-> d,
                                 before |-> conns,
                                 popped |-> Pop(conns, oldest_device)]}
       ELSE /\ conns' = SetItem(conns, d, nconn + 1)
            /\ UNCHANGED cpc
    /\ UNCHANGED <<keyVars, rot, sendVars, dataVars, extVars>>

\* ConnectionManager.connect line 152, after old_ws.close() returned.
connect_admit(c) ==
    /\ c \in cpc
    /\ conns' = SetItem(conns, c.device_id, c.ws)
    /\ cpc' = cpc \ {c}
    /\ UNCHANGED <<nconn, handlers, keyVars, rot, sendVars, dataVars, extVars>>

\* The other users in active_connections: the sender of the messages, who is
\* a contact while friend holds, and a user who is no contact.
Sender == "sender"
Bystander == "bystander"
Connected == {Sender, Bystander}

\* _broadcast_presence lines 313-323: the users the update is sent to.  An
\* absent and an empty cache entry both take the fallback.
Audience(contact_ids) ==
    IF contact_ids = {} THEN Connected ELSE contact_ids \cap Connected

\* The update sent, and the count of fallbacks (capped).
broadcast_presence(f, contact_ids, is_online) ==
    [event |-> IF is_online THEN "online" ELSE "offline",
     to |-> Audience(contact_ids),
     fallbacks |-> IF contact_ids # {} THEN f.fallbacks
                   ELSE IF f.fallbacks < MaxFallbacks THEN f.fallbacks + 1
                   ELSE MaxFallbacks]

\* disconnect lines 205-206: the cache entry goes with the last slot.
DropCache(cache, before, after) ==
    IF before # <<>> /\ after = <<>> THEN {} ELSE cache

\* disconnect lines 213-217: the calls of the user go with the last slot (in
\* the model every call is a call to this user).
DropCalls(calls, before, after) ==
    IF before # <<>> /\ after = <<>> THEN NoCalls ELSE calls

\* asyncio.create_task(self._broadcast_presence(user_id, is_online=False))
ScheduleOffline(p) == [p EXCEPT !.scheduled = TRUE]

\* The function f without the entry of w.
Drop(f, w) == [x \in DOMAIN f \ {w} |-> f[x]]

\* websocket_endpoint lines 667-669 and ConnectionManager.disconnect lines 180-219:
\* the endpoint of one websocket returns and cancels its ping task.  With a device id (not the empty
\* string) and an entry for the user, the slot of that device id is popped and
\* the method returns when slots remain; without a device id the whole entry is
\* deleted.  When it did not return early, the offline broadcast is scheduled.
disconnect(h) ==
    /\ h \in handlers
    /\ \A c \in cpc : c.ws # h.ws
    /\ handlers' = handlers \ {h}
    /\ IF h.device_id # EmptyDeviceId /\ conns # <<>>
       THEN /\ conns' = Pop(conns, h.device_id)
            /\ presence' = IF conns' = <<>> THEN ScheduleOffline(presence)
                           ELSE presence
       ELSE /\ conns' = <<>>
            /\ presence' = ScheduleOffline(presence)
    /\ contact_cache' = IF conns' = <<>> THEN {} ELSE contact_cache
    /\ active_calls' = IF conns' = <<>> THEN NoCalls ELSE active_calls
    /\ pings' = Drop(pings, h.ws)
    /\ peers' = Drop(peers, h.ws)
    /\ UNCHANGED <<nconn, cpc, keyVars, rot, spc, sent, dataVars, mailVars, fanout,
                   logVars>>

\* _broadcast_presence(user_id, is_online=False), the scheduled task: nothing is
\* sent while the user has a device slot.
broadcast_offline ==
    /\ presence.scheduled
    /\ presence' = [scheduled |-> FALSE,
                    last |-> IF conns # <<>> THEN "skipped" ELSE "offline"]
    /\ fanout' = IF conns # <<>> THEN fanout
                 ELSE broadcast_presence(fanout, contact_cache, FALSE)
    /\ UNCHANGED <<keyVars, rot, connVars, spc, sent, dataVars, mailVars,
                   contact_cache, moreVars>>

NextConn ==
    \/ \E d \in ClientIds \cup {EmptyDeviceId} : connect(d)
    \/ \E c \in cpc : connect_admit(c)
    \/ \E h \in handlers : disconnect(h)
    \/ broadcast_offline

SpecConn == Init /\ [][NextConn]_vars

\* ------------------------------------------------ send_personal_message
\* The slots of c whose device id is not in the sequence dead_devices.
Prune(c, dead_devices) ==
    SelectSeq(c, LAMBDA slot :
        \A i \in DOMAIN dead_devices : dead_devices[i] # slot.device_id)

\* send_personal_message lines 238-244: no entry for the user returns False,
\* else the snapshot list(active_connections[user_id].items()) is taken.
send_begin ==
    /\ spc = NoSend
    /\ IF conns = <<>>
       THEN /\ sent' = [op |-> "send", raised |-> FALSE, result |-> FALSE,
                        got |-> {}, failed |-> {}]
            /\ UNCHANGED spc
       ELSE /\ spc' = [at |-> "loop", todo |-> conns, delivered |-> FALSE,
                       dead_devices |-> <<>>, got |-> {}, failed |-> {}]
            /\ UNCHANGED sent
    /\ UNCHANGED <<keyVars, rot, connVars, presence, dataVars, extVars>>

\* send_personal_message lines 245-250: await ws.send_json(message) for the next
\* slot of the snapshot.  A websocket whose endpoint has returned raises; one
\* whose endpoint still runs accepts, or raises when its transport is broken.
send_step(accepts) ==
    /\ spc # NoSend
    /\ spc.todo # <<>>
    /\ LET slot == Head(spc.todo)
           ok == accepts /\ \E h \in handlers : h.ws = slot.ws
       IN spc' = [spc EXCEPT
                     !.todo = Tail(@),
                     !.delivered = @ \/ ok,
                     !.got = IF ok THEN @ \cup {slot} ELSE @,
                     !.failed = IF ok THEN @ ELSE @ \cup {slot},
                     !.dead_devices = IF ok THEN @
                                      ELSE Append(@, slot.device_id)]
    /\ UNCHANGED <<keyVars, rot, connVars, sent, presence, dataVars, extVars>>

\* send_personal_message lines 252-258: pop the dead devices, disconnect the
\* user when no slot is left, return delivered.  The subscript
\* active_connections[user_id] raises KeyError when the entry is gone.
send_finish ==
    /\ spc # NoSend
    /\ spc.todo = <<>>
    /\ IF spc.dead_devices # <<>> /\ conns = <<>>
       THEN /\ sent' = [op |-> "send", raised |-> TRUE, result |-> FALSE,
                        got |-> spc.got, failed |-> spc.failed]
            /\ UNCHANGED <<conns, presence, contact_cache, active_calls>>
       ELSE /\ conns' = Prune(conns, spc.dead_devices)
            /\ contact_cache' = DropCache(contact_cache, conns, conns')
            /\ active_calls' = DropCalls(active_calls, conns, conns')
            /\ presence' = IF conns # <<>> /\ conns' = <<>>
                           THEN ScheduleOffline(presence) ELSE presence
            /\ sent' = [op |-> "send", raised |-> FALSE, result |-> spc.delivered,
                        got |-> spc.got, failed |-> spc.failed]
    /\ spc' = NoSend
    /\ UNCHANGED <<keyVars, rot, nconn, cpc, handlers, dataVars, mailVars, fanout,
                   pingVars, logVars>>

\* Sends to a user whose few devices connect (also with an empty device id) and
\* disconnect while the send is suspended.
NextSend ==
    \/ \E d \in ClientIds \cup {EmptyDeviceId} :
          nconn < MaxSendConnects /\ connect(d)
    \/ \E h \in handlers : disconnect(h)
    \/ broadcast_offline
    \/ send_begin
    \/ \E accepts \in Booleans : send_step(accepts)
    \/ send_finish

SpecSend == Init /\ [][NextSend]_vars

\* ===================================================== message status ====
\* msgs[message_id] is the row of table messages: status, delivered_at, read_at.

MessageStatusEnum == {"sent", "delivered", "read", "expired", "deleted"}
\* A NULL timestamp, and datetime.now() at a write: later than every timestamp
\* stored so far.
NoTime == 0
Stamps(tbl) ==
    {tbl[m].delivered_at : m \in DOMAIN tbl} \cup {tbl[m].read_at : m \in DOMAIN tbl}
Now(tbl) == 1 + CHOOSE x \in Stamps(tbl) : \A y \in Stamps(tbl) : y <= x

\* _STATUS_ORDER with the reading of the swapped stages delivered and read.
STATUS_ORDER_read_first ==
    [st \in MessageStatusEnum |->
        CASE st = "sent" -> 0 [] st = "delivered" -> 2 [] st = "read" -> 1
          [] st = "expired" -> 3 [] st = "deleted" -> 4]

\* _STATUS_ORDER
STATUS_ORDER ==
    [st \in MessageStatusEnum |->
        CASE st = "sent" -> 0 [] st = "delivered" -> 1 [] st = "read" -> 2
          [] st = "expired" -> 3 [] st = "deleted" -> 4]

\* MessageRepository.create
create_message ==
    /\ Len(msgs) < MaxMessages
    /\ msgs' = Append(msgs, [status |-> "sent", delivered_at |-> NoTime,
                             read_at |-> NoTime])
    /\ UNCHANGED <<keyVars, rot, connVars, sendVars, upc, ulast, skeys, extVars>>

\* MessageRepository.delete (soft)
delete_message(m) ==
    /\ m \in DOMAIN msgs
    /\ msgs[m].status # "deleted"
    /\ msgs' = [msgs EXCEPT ![m].status = "deleted"]
    /\ UNCHANGED <<keyVars, rot, connVars, sendVars, upc, ulast, skeys, extVars>>

\* MessageRepository.cleanup_expired, for a message past its expires_at
cleanup_expired(m) ==
    /\ m \in DOMAIN msgs
    /\ msgs[m].status # "expired"
    /\ msgs' = [msgs EXCEPT ![m].status = "expired"]
    /\ UNCHANGED <<keyVars, rot, connVars, sendVars, upc, ulast, skeys, extVars>>

\* update_message_status._update lines 1282-1290, in a worker thread: the read
\* of the row and the forward-only check.
update_message_status(m, status) ==
    /\ IF m \notin DOMAIN msgs
       THEN /\ ulast' = [status |-> status, outcome |-> "missing"]
            /\ UNCHANGED upc
       ELSE LET current_order == STATUS_ORDER[msgs[m].status]
                new_order == STATUS_ORDER[status]
            IN IF new_order <= current_order
               THEN /\ ulast' = [status |-> status, outcome |-> "noop"]
                    /\ UNCHANGED upc
               ELSE /\ upc' = upc \cup {[message_id |-> m, status |-> status]}
                    /\ UNCHANGED ulast
    /\ UNCHANGED <<keyVars, rot, connVars, sendVars, msgs, skeys, extVars>>

\* update_message_status._update lines 1292-1297: the assignments and the commit.
update_message_status_commit(t) ==
    /\ t \in upc
    /\ upc' = upc \ {t}
    /\ msgs' = [msgs EXCEPT ![t.message_id] =
                   [status |-> t.status,
                    delivered_at |-> IF t.status = "delivered" THEN Now(msgs)
                                     ELSE @.delivered_at,
                    read_at |-> IF t.status = "read" THEN Now(msgs)
                                ELSE @.read_at]]
    /\ ulast' = [status |-> t.status, outcome |-> "written"]
    /\ UNCHANGED <<keyVars, rot, connVars, sendVars, skeys, extVars>>

\* Status writers of one message table; updates run in threads that interleave.
NextMsg ==
    \/ create_message
    \/ \E m \in DOMAIN msgs : delete_message(m)
    \/ \E m \in DOMAIN msgs : cleanup_expired(m)
    \/ \E m \in 1..MaxMessages, status \in MessageStatusEnum :
          Cardinality(upc) < NumWorkers /\ update_message_status(m, status)
    \/ \E t \in upc : update_message_status_commit(t)

SpecMsg == Init /\ [][NextMsg]_vars

\* ======================================================= session keys ====
\* skeys[id] is the row of table encrypted_session_keys with primary key id,
\* reduced to its owner, the DEK version it is wrapped under and is_active;
\* the rows of one user belong to one conversation.

\* DeviceSyncRepository.store_session_key
store_session_key(u, v) ==
    /\ pc = Idle
    /\ Len(skeys) < MaxKeys
    /\ skeys' = Append([i \in DOMAIN skeys |->
                           IF skeys[i].user_id = u
                           THEN [skeys[i] EXCEPT !.is_active = FALSE]
                           ELSE skeys[i]],
                       [user_id |-> u, dek_version |-> v, is_active |-> TRUE])
    /\ resp' = [op |-> "store_session_key", status |-> 201]
    /\ UNCHANGED <<deks, rotlog, sessions, auths, wdeks, pc, rot, connVars,
                   sendVars, msgs, upc, ulast, extVars>>

\* The lists of two row ids a client may send: the same id twice and ids of no
\* row included.
Batches == {<<a, b>> : a \in 1..MaxKeys, b \in 1..MaxKeys}

\* One UPDATE of rewrap_session_keys_for_dek: the rows it matches.
RewrapMatches(tbl, u, old_dek_version, id) ==
    {i \in DOMAIN tbl : /\ i = id
                        /\ tbl[i].user_id = u
                        /\ tbl[i].dek_version = old_dek_version}

\* rewrap_session_keys_for_dek whose UPDATE does not filter on dek_version.
RECURSIVE rewrap_any_version(_, _, _, _, _)
rewrap_any_version(tbl, u, old_dek_version, new_dek_version, rks) ==
    IF rks = <<>> THEN [skeys |-> tbl, count |-> 0]
    ELSE LET hit == {i \in DOMAIN tbl : i = Head(rks) /\ tbl[i].user_id = u}
             upd == [i \in DOMAIN tbl |->
                        IF i \in hit
                        THEN [tbl[i] EXCEPT !.dek_version = new_dek_version]
                        ELSE tbl[i]]
             rest == rewrap_any_version(upd, u, old_dek_version,
                                        new_dek_version, Tail(rks))
         IN [skeys |-> rest.skeys, count |-> Cardinality(hit) + rest.count]

\* DeviceSyncRepository.rewrap_session_keys_for_dek: one UPDATE per entry of the
\* list, count += its row count.
RECURSIVE rewrap_session_keys_for_dek(_, _, _, _, _)
rewrap_session_keys_for_dek(tbl, u, old_dek_version, new_dek_version, rks) ==
    IF rks = <<>> THEN [skeys |-> tbl, count |-> 0]
    ELSE LET hit == RewrapMatches(tbl, u, old_dek_version, Head(rks))
             upd == [i \in DOMAIN tbl |->
                        IF i \in hit
                        THEN [tbl[i] EXCEPT !.dek_version = new_dek_version]
                        ELSE tbl[i]]
             rest == rewrap_session_keys_for_dek(upd, u, old_dek_version,
                                                 new_dek_version, Tail(rks))
         IN [skeys |-> rest.skeys, count |-> Cardinality(hit) + rest.count]

\* POST /keys/session/rewrap, called by Account; the response is kept with the
\* list that was sent.
rewrap_session_keys(old_dek_version, new_dek_version, rks) ==
    /\ pc = Idle
    /\ LET r == rewrap_session_keys_for_dek(skeys, Account, old_dek_version,
                                            new_dek_version, rks)
       IN /\ skeys' = r.skeys
          /\ resp' = [op |-> "rewrap_session_keys", status |-> 200,
                      rewrapped_count |-> r.count, rewrapped_keys |-> rks]
    /\ UNCHANGED <<deks, rotlog, sessions, auths, wdeks, pc, rot, connVars,
                   sendVars, msgs, upc, ulast, extVars>>

\* Session keys of two accounts, stored, and re-wrapped in batches by Account.
NextKeys ==
    \/ \E u \in Users, v \in Versions : store_session_key(u, v)
    \/ \E old \in Versions, new \in Versions, rks \in Batches :
          rewrap_session_keys(old, new, rks)

SpecKeys == Init /\ [][NextKeys]_vars

\* =================================================== message delivery ====
\* One sender and one recipient.  friend: the two are mutual trusted contacts.
\* wire holds [message_id, by] for every "message" payload that a device of the
\* recipient accepted, by the live send, a retry or the flush at connect.

\* FriendRepository.accept_friend_request: both contact rows are created.
accept_friend_request ==
    /\ ~friend
    /\ friend' = TRUE
    /\ UNCHANGED <<keyVars, rot, connVars, sendVars, dataVars, wire, tasks, flush,
                   presVars, moreVars>>

\* FriendRepository.unfriend_user: both contact rows are removed.
unfriend_user ==
    /\ friend
    /\ friend' = FALSE
    /\ UNCHANGED <<keyVars, rot, connVars, sendVars, dataVars, wire, tasks, flush,
                   presVars, moreVars>>

\* update_message_status as one step: forward-only, a missing row is skipped.
UpdateStatus(tbl, m, status) ==
    IF m \notin DOMAIN tbl THEN tbl
    ELSE IF STATUS_ORDER[status] <= STATUS_ORDER[tbl[m].status] THEN tbl
    ELSE [tbl EXCEPT ![m] =
             [status |-> status,
              delivered_at |-> IF status = "delivered" THEN Now(tbl)
                               ELSE @.delivered_at,
              read_at |-> IF status = "read" THEN Now(tbl) ELSE @.read_at]]

\* send_personal_message as one step, for the registry c at its start.  No
\* entry: False.  Otherwise the devices in got accept, the others raise and
\* are popped, and the call returns whether got is not empty; or, when a device
\* raised and every websocket of the user disconnected during the send, the
\* pruning raises KeyError.
SendResults(c) ==
    IF c = <<>>
    THEN {[raised |-> FALSE, result |-> FALSE, got |-> {}, conns |-> <<>>]}
    ELSE {[raised |-> FALSE, result |-> got # {}, got |-> got,
           conns |-> SelectSeq(c, LAMBDA slot : slot.device_id \in got)] :
             got \in SUBSET Keys(c)}
         \cup
         {[raised |-> TRUE, result |-> FALSE, got |-> got, conns |-> <<>>] :
             got \in (SUBSET Keys(c)) \ {Keys(c)}}

\* The registry, the endpoints and the presence task after a send with outcome o.
Registry(o) ==
    /\ conns' = o.conns
    /\ handlers' = IF o.raised THEN {h \in handlers : h.ws \notin Sockets(conns)}
                   ELSE handlers
    /\ presence' = IF conns # <<>> /\ o.conns = <<>>
                   THEN ScheduleOffline(presence) ELSE presence
    /\ contact_cache' = DropCache(contact_cache, conns, o.conns)

Sending(o) ==
    /\ Registry(o)
    /\ active_calls' = DropCalls(active_calls, conns, o.conns)

Transported(o, m, by) ==
    IF o.got # {} THEN {[message_id |-> m, by |-> by]} ELSE {}

\* handle_encrypted_message lines 762-790: the sender is a mutual contact, the
\* message is stored.  A message without content violates NOT NULL, the commit
\* raises and store_message returns -1.  The sender's endpoint handles one
\* frame at a time; the retry tasks run beside it.
handle_encrypted_message(encrypted_content) ==
    /\ friend
    /\ \A t \in tasks : t.at = "retry"
    /\ IF encrypted_content = NullValue
       THEN /\ \A t \in tasks : t.message_id # StoreFailed
            /\ tasks' = tasks \cup {[message_id |-> StoreFailed, at |-> "send",
                                     attempt |-> 0, slept |-> 0]}
            /\ UNCHANGED msgs
       ELSE /\ Len(msgs) < MaxMessages
            /\ msgs' = Append(msgs, [status |-> "sent", delivered_at |-> NoTime,
                                     read_at |-> NoTime])
            /\ tasks' = tasks \cup {[message_id |-> Len(msgs) + 1, at |-> "send",
                                     attempt |-> 0, slept |-> 0]}
    /\ UNCHANGED <<keyVars, rot, connVars, sendVars, upc, ulast, skeys, friend,
                   wire, flush, presVars, moreVars>>

\* handle_encrypted_message lines 811-833: the live send, then the status
\* update is due or the retry task is created.
handle_send(t) ==
    /\ t \in tasks
    /\ t.at = "send"
    /\ \E o \in SendResults(conns) :
          /\ Sending(o)
          /\ wire' = wire \cup Transported(o, t.message_id, "live")
          /\ tasks' = (tasks \ {t}) \cup
                IF o.raised THEN {}
                ELSE IF o.result THEN {[t EXCEPT !.at = "mark"]}
                ELSE {[t EXCEPT !.at = "retry", !.attempt = 1,
                                !.slept = delay * 1]}
    /\ UNCHANGED <<keyVars, rot, nconn, cpc, spc, sent, dataVars, friend, flush,
                   fanout, pingVars, logVars>>

\* update_message_status(message_id, DELIVERED) after a send that delivered.
handle_mark(t) ==
    /\ t \in tasks
    /\ t.at = "mark"
    /\ msgs' = UpdateStatus(msgs, t.message_id, "delivered")
    /\ tasks' = tasks \ {t}
    /\ UNCHANGED <<keyVars, rot, connVars, sendVars, upc, ulast, skeys, friend,
                   wire, flush, presVars, moreVars>>

\* The retry loop without its bound: another attempt after every failure.
NextAttemptUnbounded(t) ==
    {[t EXCEPT !.attempt = @ + 1, !.slept = delay * (t.attempt + 1)]}

\* The retry task after attempt n: the next attempt after its sleep, or the end.
NextAttempt(t) ==
    IF t.attempt < max_retries
    THEN {[t EXCEPT !.attempt = @ + 1, !.slept = delay * (t.attempt + 1)]}
    ELSE {}

\* _retry_message_delivery, one pass of the loop after its sleep: the task ends
\* when the row is no longer sent; when the recipient is online the payload is
\* sent again.
retry_attempt(t) ==
    /\ t \in tasks
    /\ t.at = "retry"
    /\ IF t.message_id \in DOMAIN msgs /\ msgs[t.message_id].status # "sent"
       THEN /\ tasks' = tasks \ {t}
            /\ UNCHANGED <<conns, handlers, presence, wire, contact_cache, active_calls>>
       ELSE IF conns = <<>>
       THEN /\ tasks' = (tasks \ {t}) \cup NextAttempt(t)
            /\ UNCHANGED <<conns, handlers, presence, wire, contact_cache, active_calls>>
       ELSE \E o \in SendResults(conns) :
              /\ Sending(o)
              /\ wire' = wire \cup Transported(o, t.message_id, "retry")
              /\ tasks' = (tasks \ {t}) \cup
                    IF o.raised THEN {}
                    ELSE IF o.result THEN {[t EXCEPT !.at = "mark"]}
                    ELSE NextAttempt(t)
    /\ UNCHANGED <<keyVars, rot, nconn, cpc, spc, sent, dataVars, friend, flush,
                   fanout, pingVars, logVars>>

\* ConnectionManager.connect below the device limit, lines 132-165: the slot is
\* set, the online update is broadcast and _deliver_pending_messages is awaited.
connect_deliver(d) ==
    /\ flush = NoFlush
    /\ nconn < MaxMailConnects
    /\ Len(conns) < MAX_DEVICES_PER_USER
    /\ nconn' = nconn + 1
    /\ handlers' = handlers \cup {[ws |-> nconn + 1, device_id |-> d]}
    /\ conns' = SetItem(conns, d, nconn + 1)
    /\ flush' = [at |-> "fetch"]
    /\ fanout' = broadcast_presence(fanout, contact_cache, TRUE)
    /\ UNCHANGED <<keyVars, rot, cpc, sendVars, dataVars, friend, wire, tasks,
                   contact_cache, moreVars>>

\* The message ids of S in ascending order (ORDER BY created_at).
RECURSIVE Ordered(_)
Ordered(S) ==
    IF S = {} THEN <<>>
    ELSE LET m == CHOOSE x \in S : \A y \in S : x <= y
         IN <<m>> \o Ordered(S \ {m})

\* _fetch_pending with no distinction between contacts and other senders.
fetch_pending_any_sender(tbl, is_contact) ==
    LET pending == {m \in DOMAIN tbl : /\ tbl[m].status = "sent"
                                        /\ tbl[m].delivered_at = NoTime}
    IN [msgs |-> tbl, results |-> Ordered(pending), skipped |-> {}]

\* _deliver_pending_messages._fetch_pending: the rows to the user that are sent
\* and not delivered; those of a sender who is no contact are marked delivered,
\* the others are returned.
fetch_pending(tbl, is_contact) ==
    LET pending == {m \in DOMAIN tbl : /\ tbl[m].status = "sent"
                                        /\ tbl[m].delivered_at = NoTime}
    IN IF is_contact
       THEN [msgs |-> tbl, results |-> Ordered(pending), skipped |-> {}]
       ELSE [msgs |-> [m \in DOMAIN tbl |->
                          IF m \in pending
                          THEN [tbl[m] EXCEPT !.status = "delivered",
                                              !.delivered_at = Now(tbl)]
                          ELSE tbl[m]],
             results |-> <<>>, skipped |-> pending]

\* _deliver_pending_messages lines 350-399: the fetch, in one transaction, and
\* the contacts it read are cached for the presence broadcasts.
flush_fetch ==
    /\ flush.at = "fetch"
    /\ LET r == fetch_pending(msgs, friend) IN
       /\ msgs' = r.msgs
       /\ flush' = [at |-> "send", contact |-> friend, todo |-> r.results,
                    skipped |-> r.skipped, delivered_ids |-> <<>>]
    /\ contact_cache' = IF friend THEN {Sender} ELSE {}
    /\ UNCHANGED <<keyVars, rot, connVars, sendVars, upc, ulast, skeys, friend,
                   wire, tasks, fanout, moreVars>>

\* _deliver_pending_messages lines 397-417: one payload is sent; an exception
\* ends the coroutine (line 437).
flush_send ==
    /\ flush.at = "send"
    /\ flush.todo # <<>>
    /\ \E o \in SendResults(conns) :
          /\ Sending(o)
          /\ wire' = wire \cup Transported(o, Head(flush.todo), "pending")
          /\ flush' = IF o.raised THEN NoFlush
                      ELSE [flush EXCEPT
                              !.todo = Tail(@),
                              !.delivered_ids =
                                 IF o.result THEN Append(@, Head(flush.todo))
                                 ELSE @]
    /\ UNCHANGED <<keyVars, rot, nconn, cpc, spc, sent, dataVars, friend, tasks,
                   fanout, pingVars, logVars>>

\* _deliver_pending_messages lines 419-429: the batch update of delivered_ids.
flush_mark ==
    /\ flush.at = "send"
    /\ flush.todo = <<>>
    /\ msgs' = [m \in DOMAIN msgs |->
                   IF \E i \in DOMAIN flush.delivered_ids :
                         flush.delivered_ids[i] = m
                   THEN [msgs[m] EXCEPT !.status = "delivered",
                                        !.delivered_at = Now(msgs)]
                   ELSE msgs[m]]
    /\ flush' = NoFlush
    /\ UNCHANGED <<keyVars, rot, connVars, sendVars, upc, ulast, skeys, friend,
                   wire, tasks, presVars, moreVars>>

\* Messages from one sender to a recipient whose devices connect and disconnect.
NextMail ==
    \/ accept_friend_request
    \/ unfriend_user
    \/ handle_encrypted_message("ct")
    \/ \E t \in tasks : handle_send(t)
    \/ \E t \in tasks : handle_mark(t)
    \/ \E t \in tasks : retry_attempt(t)
    \/ \E d \in ClientIds : connect_deliver(d)
    \/ \E h \in handlers : disconnect(h)
    \/ flush_fetch
    \/ flush_send
    \/ flush_mark

SpecMail == Init /\ [][NextMail]_vars

\* The event loop runs every task that is ready: a retry task whose sleep is
\* over, and a handler whose send returned.
MailFairness ==
    \A m \in 1..MaxMessages :
       /\ WF_vars(\E t \in tasks : t.message_id = m /\ retry_attempt(t))
       /\ WF_vars(\E t \in tasks : t.message_id = m /\ handle_mark(t))

SpecMailFair == SpecMail /\ MailFairness

\* The same, with frames of type "message" that carry no content.
NextStore ==
    \/ NextMail
    \/ handle_encrypted_message(NullValue)

SpecStore == Init /\ [][NextStore]_vars

\* The same recipient, with the scheduled offline broadcasts running.
NextPresence ==
    \/ NextMail
    \/ broadcast_offline

SpecPresence == Init /\ [][NextPresence]_vars

\* A further device of the recipient connects while another one is in its
\* receive loop: ConnectionManager.connect lines 132-165, as connect_deliver.
connect_beside(d) ==
    /\ flush = NoFlush
    /\ conns # <<>>
    /\ nconn < MaxReceiptConnects
    /\ Len(conns) < MAX_DEVICES_PER_USER
    /\ nconn' = nconn + 1
    /\ handlers' = handlers \cup {[ws |-> nconn + 1, device_id |-> d]}
    /\ conns' = SetItem(conns, d, nconn + 1)
    /\ flush' = [at |-> "fetch"]
    /\ fanout' = broadcast_presence(fanout, contact_cache, TRUE)
    /\ UNCHANGED <<keyVars, rot, cpc, sendVars, dataVars, friend, wire, tasks,
                   contact_cache, moreVars>>

\* The endpoints that read frames: the one whose connect awaits the flush has
\* not entered its receive loop.
InLoop == {h \in handlers : /\ h.ws \in Sockets(conns)
                            /\ flush = NoFlush \/ h.ws # nconn}

\* handle_read_receipt lines 853-875, for a message that reached the devices
\* of the recipient, one of which is in its receive loop: the forward-only
\* status update, the receipt to the sender, and the read_sync to the devices
\* of the reader.
handle_read_receipt(m) ==
    /\ InLoop # {}
    /\ m \in DOMAIN msgs
    /\ \E w \in wire : w.message_id = m
    /\ msgs' = UpdateStatus(msgs, m, "read")
    /\ \E o \in SendResults(conns) : Sending(o)
    /\ UNCHANGED <<keyVars, rot, nconn, cpc, spc, sent, upc, ulast, skeys, mailVars,
                   fanout, pingVars, logVars>>

\* The same recipient with a second device, whose client acknowledges the
\* messages it has read.
NextReceipt ==
    \/ NextMail
    \/ \E d \in ClientIds : connect_beside(d)
    \/ \E m \in DOMAIN msgs : handle_read_receipt(m)

SpecReceipt == Init /\ [][NextReceipt]_vars

\* ====================================================== keep-alive ====
\* pings[ws] is the _ping_loop task of the endpoint of websocket ws; peers[ws]
\* is the other end: whether the client has stopped answering, the state of
\* the transport, and the probes it received and has not answered.

\* websocket_endpoint lines 610-637: connect below the device limit (the slot,
\* the online update; no message is pending), then the ping task is created.
endpoint_open(d) ==
    /\ nconn < MaxPingConnects
    /\ Len(conns) < MAX_DEVICES_PER_USER
    /\ nconn' = nconn + 1
    /\ handlers' = handlers \cup {[ws |-> nconn + 1, device_id |-> d]}
    /\ conns' = SetItem(conns, d, nconn + 1)
    /\ fanout' = broadcast_presence(fanout, contact_cache, TRUE)
    /\ contact_cache' = IF friend THEN {Sender} ELSE {}
    /\ pings' = pings @@ (nconn + 1 :> [at |-> "sleep", slept |-> WS_PING_INTERVAL])
    /\ peers' = peers @@ (nconn + 1 :> [silent |-> FALSE, transport |-> "ok",
                                       unanswered |-> 0])
    /\ UNCHANGED <<keyVars, rot, cpc, sendVars, dataVars, mailVars, callVars>>

\* The seconds send_json takes on a transport; a broken transport raises.
Took(transport) == IF transport = "ok" THEN 0 ELSE WS_PONG_TIMEOUT + 1

\* _ping_loop line 624: asyncio.sleep(WS_PING_INTERVAL) returns.
ping_wake(w) ==
    /\ w \in DOMAIN pings
    /\ pings[w].at = "sleep"
    /\ pings' = [pings EXCEPT ![w].at = "probe"]
    /\ UNCHANGED <<keyVars, rot, connVars, sendVars, dataVars, mailVars, presVars,
                   peers, callVars>>

\* _ping_loop lines 625-634: the ping is sent under wait_for, and the loop
\* sleeps again; a timeout or an exception of the send closes the websocket
\* and ends the task.  Nothing else is awaited: no answer of the client is read.
ping_probe(w) ==
    /\ w \in DOMAIN pings
    /\ pings[w].at = "probe"
    /\ IF peers[w].transport # "broken" /\ Took(peers[w].transport) <= WS_PONG_TIMEOUT
       THEN /\ peers' = [peers EXCEPT ![w].unanswered =
                            IF @ < MaxProbes THEN @ + 1 ELSE @]
            /\ pings' = [pings EXCEPT ![w].at = "sleep"]
       ELSE /\ pings' = [pings EXCEPT ![w].at = "closed"]
            /\ UNCHANGED peers
    /\ UNCHANGED <<keyVars, rot, connVars, sendVars, dataVars, mailVars, presVars,
                   callVars>>

\* A send_personal_message in which every device write raises.
Unreachable(c) == SelectSeq(c, LAMBDA slot : FALSE)

\* The slots whose transport takes a frame: send_personal_message pops the rest.
Reachable(c) == SelectSeq(c, LAMBDA slot : slot.ws \in DOMAIN peers =>
                                              peers[slot.ws].transport = "ok")

\* The client answers the probes with a frame of type "pong":
\* handle_websocket_message lines 728-732 has no branch for it and replies with
\* the unknown-type error to every device of the user; the ping task is not
\* told.  The reply has no timeout: it waits on a stalled transport.
peer_pong(w) ==
    /\ w \in DOMAIN peers
    /\ pings[w].at # "closed"
    /\ ~peers[w].silent
    /\ peers[w].transport = "ok"
    /\ peers[w].unanswered > 0
    /\ \A i \in DOMAIN conns : conns[i].ws \in DOMAIN peers =>
                                   peers[conns[i].ws].transport # "stalled"
    /\ peers' = [peers EXCEPT ![w].unanswered = 0]
    /\ conns' = Reachable(conns)
    /\ presence' = IF conns # <<>> /\ conns' = <<>>
                   THEN ScheduleOffline(presence) ELSE presence
    /\ contact_cache' = DropCache(contact_cache, conns, conns')
    /\ active_calls' = DropCalls(active_calls, conns, conns')
    /\ UNCHANGED <<keyVars, rot, nconn, cpc, handlers, spc, sent, dataVars, mailVars,
                   fanout, pings, logVars>>

\* The client stops reading and answering; its transport is untouched.
peer_hangs(w) ==
    /\ w \in DOMAIN peers
    /\ ~peers[w].silent
    /\ peers' = [peers EXCEPT ![w].silent = TRUE]
    /\ UNCHANGED <<keyVars, rot, connVars, sendVars, dataVars, mailVars, presVars,
                   pings, callVars>>

\* The transport stops taking frames (how = "stalled") or is reset ("broken").
transport_fails(w, how) ==
    /\ w \in DOMAIN peers
    /\ peers[w].transport = "ok"
    /\ peers' = [peers EXCEPT ![w].transport = how]
    /\ UNCHANGED <<keyVars, rot, connVars, sendVars, dataVars, mailVars, presVars,
                   pings, callVars>>

\* websocket_endpoint lines 649-669: receive_text raises when the client closed,
\* the transport is reset or the ping task closed the websocket; the endpoint
\* disconnects.
endpoint_return(h) ==
    /\ h.ws \in DOMAIN pings
    /\ \/ pings[h.ws].at = "closed"
       \/ peers[h.ws].transport = "broken"
       \/ ~peers[h.ws].silent /\ peers[h.ws].transport = "ok"
    /\ disconnect(h)

NextPing ==
    \/ \E d \in ClientIds : endpoint_open(d)
    \/ \E w \in DOMAIN pings : ping_wake(w)
    \/ \E w \in DOMAIN pings : ping_probe(w)
    \/ \E w \in DOMAIN peers : peer_pong(w)
    \/ \E w \in DOMAIN peers : peer_hangs(w)
    \/ \E w \in DOMAIN peers, how \in {"stalled", "broken"} : transport_fails(w, how)
    \/ \E h \in handlers : endpoint_return(h)
    \/ broadcast_offline

SpecPing == Init /\ [][NextPing]_vars

\* The event loop runs a ping task whose sleep is over and an endpoint whose
\* websocket was closed by its ping task.
PingFairness ==
    \A w \in 1..MaxPingConnects :
       /\ WF_vars(ping_wake(w))
       /\ WF_vars(ping_probe(w))
       /\ WF_vars(\E h \in handlers :
                     /\ h.ws = w
                     /\ w \in DOMAIN pings
                     /\ pings[w].at = "closed"
                     /\ endpoint_return(h))

SpecPingFair == SpecPing /\ PingFairness

\* ================================================== refused frames ====
\* The replies of the error envelopes.
InvalidFrames == {"Unknown message type", "Invalid JSON"}
Oversized == "Message too large"

\* handle_websocket_message lines 728-743: a frame of a type with no branch, or
\* one json.loads refuses, is answered by send_personal_message with an error
\* envelope to every device of the user; the devices whose write raises are
\* popped.  The handler returns to the loop of the endpoint.
handle_invalid(w, message) ==
    /\ w \in DOMAIN peers
    /\ pings[w].at # "closed"
    /\ ~peers[w].silent
    /\ peers[w].transport = "ok"
    /\ \A i \in DOMAIN conns : conns[i].ws \in DOMAIN peers =>
                                   peers[conns[i].ws].transport # "stalled"
    /\ conns' = Reachable(conns)
    /\ sent' = [op |-> "send", raised |-> FALSE, result |-> conns' # <<>>,
                got |-> {conns'[i] : i \in DOMAIN conns'},
                failed |-> {conns[i] : i \in DOMAIN conns}
                              \ {conns'[i] : i \in DOMAIN conns'},
                message |-> message]
    /\ presence' = IF conns # <<>> /\ conns' = <<>>
                   THEN ScheduleOffline(presence) ELSE presence
    /\ contact_cache' = DropCache(contact_cache, conns, conns')
    /\ active_calls' = DropCalls(active_calls, conns, conns')
    /\ UNCHANGED <<keyVars, rot, nconn, cpc, handlers, spc, dataVars, mailVars,
                   fanout, pingVars, logVars>>

\* websocket_endpoint lines 652-658: a frame longer than MAX_WS_MESSAGE_SIZE is
\* answered on the websocket it came from, and the loop continues.
handle_oversized(h) ==
    /\ h.ws \in DOMAIN peers
    /\ pings[h.ws].at # "closed"
    /\ ~peers[h.ws].silent
    /\ peers[h.ws].transport = "ok"
    /\ sent' = [op |-> "send_json", raised |-> FALSE, result |-> TRUE,
                got |-> {h}, failed |-> {}, message |-> Oversized]
    /\ UNCHANGED <<keyVars, rot, connVars, spc, presence, dataVars, extVars>>

NextFrame ==
    \/ \E d \in ClientIds : endpoint_open(d)
    \/ \E w \in DOMAIN peers, message \in InvalidFrames : handle_invalid(w, message)
    \/ \E h \in handlers : handle_oversized(h)
    \/ \E w \in DOMAIN peers : peer_hangs(w)
    \/ \E w \in DOMAIN peers, how \in {"stalled", "broken"} : transport_fails(w, how)
    \/ \E h \in handlers : endpoint_return(h)
    \/ broadcast_offline

SpecFrame == Init /\ [][NextFrame]_vars

\* =========================================================== calls ====
\* The caller is the sender, the callee is the user of conns.  A call is
\* [call_type, status]; a row of call_logs is [call_id, call_type, status],
\* where call_id names the call the row was written for (the table has no such
\* column).  Timestamps and the duration are left out.
Recipient == "recipient"
CallIds == 1..MaxCalls
\* CallTypeEnum, and the call types a client may send.
CallTypes == {"audio", "video"}
ClientCallTypes == CallTypes \cup {"screen"}

CallRoom == Len(call_logs) + Cardinality(calltasks) < MaxCallLogs

\* handle_call_offer: the callee's username is not in username_to_id when the
\* callee has no connection, and call_failed goes to the caller; otherwise the
\* call is stored as ringing (an entry of the same id is replaced) and the
\* offer is sent to the callee.
handle_call_offer(c, call_type) ==
    /\ CallRoom
    /\ IF conns = <<>>
       THEN /\ callout' = [type |-> "call_failed", call_id |-> c]
            /\ UNCHANGED <<active_calls, conns, handlers, presence, contact_cache>>
       ELSE /\ \E o \in SendResults(conns) :
                  /\ Registry(o)
                  /\ active_calls' =
                        DropCalls((c :> [call_type |-> call_type, status |-> "ringing"])
                                     @@ active_calls,
                                  conns, o.conns)
            /\ UNCHANGED callout
    /\ UNCHANGED <<keyVars, rot, nconn, cpc, spc, sent, dataVars, mailVars, fanout,
                   pingVars, call_logs, calltasks>>

\* handle_call_answer: the call becomes connected, the answer goes to the caller.
handle_call_answer(c) ==
    /\ c \in DOMAIN active_calls
    /\ active_calls' = [active_calls EXCEPT ![c].status = "connected"]
    /\ callout' = [type |-> "call_answer", call_id |-> c]
    /\ UNCHANGED <<keyVars, rot, connVars, sendVars, dataVars, mailVars, presVars,
                   pingVars, call_logs, calltasks>>

\* handle_call_reject lines 1015-1023: the entry is deleted; the coroutine then
\* awaits save_call_log.  An unknown call id returns at once.
handle_call_reject(c) ==
    /\ c \in DOMAIN active_calls
    /\ active_calls' = Drop(active_calls, c)
    /\ calltasks' = calltasks \cup {[call_id |-> c, call |-> active_calls[c],
                                     status |-> "rejected", notify |-> Sender]}
    /\ UNCHANGED <<keyVars, rot, connVars, sendVars, dataVars, mailVars, presVars,
                   pingVars, call_logs, callout>>

\* handle_call_end lines 1038-1055: the entry is deleted; the status to log is
\* completed for a connected call and missed otherwise; the other party will
\* be notified.  The frame of the callee comes through one of its endpoints.
handle_call_end(c, by) ==
    /\ c \in DOMAIN active_calls
    /\ by = Recipient => handlers # {}
    /\ active_calls' = Drop(active_calls, c)
    /\ calltasks' = calltasks \cup
          {[call_id |-> c, call |-> active_calls[c],
            status |-> IF active_calls[c].status = "connected"
                       THEN "completed" ELSE "missed",
            notify |-> IF by = Recipient THEN Sender ELSE Recipient,
            ended_by |-> by]}
    /\ UNCHANGED <<keyVars, rot, connVars, sendVars, dataVars, mailVars, presVars,
                   pingVars, call_logs, callout>>

\* save_call_log lines 60-90: CallTypeEnum(call_type) raises ValueError for a
\* value outside the enum; the exception is logged and nothing is inserted.
save_call_log(logs, t) ==
    IF t.call.call_type \in CallTypes
    THEN Append(logs, [call_id |-> t.call_id, call_type |-> t.call.call_type,
                       status |-> t.status])
    ELSE logs

\* The rest of handle_call_reject (lines 1025-1035) and of handle_call_end
\* (lines 1057-1065): the log is saved and the notification is sent.
call_finish(t) ==
    /\ t \in calltasks
    /\ calltasks' = calltasks \ {t}
    /\ call_logs' = save_call_log(call_logs, t)
    /\ IF t.notify = Sender
       THEN /\ callout' = [type |-> IF t.status = "rejected" THEN "call_rejected"
                                    ELSE "call_ended",
                           call_id |-> t.call_id]
            /\ UNCHANGED <<conns, handlers, presence, contact_cache, active_calls>>
       ELSE /\ \E o \in SendResults(conns) : Sending(o)
            /\ UNCHANGED callout
    /\ UNCHANGED <<keyVars, rot, nconn, cpc, spc, sent, dataVars, mailVars, fanout,
                   pingVars>>

NextCall ==
    \/ \E d \in ClientIds : endpoint_open(d)
    \/ \E h \in handlers : endpoint_return(h)
    \/ broadcast_offline
    \/ \E c \in CallIds, call_type \in ClientCallTypes : handle_call_offer(c, call_type)
    \/ \E c \in CallIds : handle_call_answer(c)
    \/ \E c \in CallIds : handle_call_reject(c)
    \/ \E c \in CallIds, by \in {Sender, Recipient} : handle_call_end(c, by)
    \/ \E t \in calltasks : call_finish(t)

SpecCall == Init /\ [][NextCall]_vars

\* handle_ice_candidate lines 1068-1090: the candidate goes to the caller when
\* the frame came from the callee, and to the callee otherwise.
handle_ice_candidate(c, by) ==
    /\ c \in DOMAIN active_calls
    /\ by = Recipient => handlers # {}
    /\ IF by = Recipient
       THEN /\ callout' = [type |-> "ice_candidate", call_id |-> c]
            /\ UNCHANGED <<conns, handlers, presence, contact_cache, active_calls>>
       ELSE /\ \E o \in SendResults(conns) : Sending(o)
            /\ UNCHANGED callout
    /\ UNCHANGED <<keyVars, rot, nconn, cpc, spc, sent, dataVars, mailVars, fanout,
                   pingVars, call_logs, calltasks>>

\* The users whose endpoints handle call frames: the two parties of the calls
\* and a connected user who is in none of them.
CallSenders == {Sender, Recipient, Bystander}

NextSignal ==
    \/ NextCall
    \/ \E c \in CallIds : handle_call_end(c, Bystander)
    \/ \E c \in CallIds, by \in CallSenders : handle_ice_candidate(c, by)

SpecSignal == Init /\ [][NextSignal]_vars

\* ============================================================= claims ====

\* C1: for every user, at most one DataEncryptionKey row has is_active = true,
\* after any store and rotate operations, rotations that interleave included.
C1_AtMostOneActiveDek ==
    \A u \in Users : Cardinality(get_active_dek(deks, u)) <= 1

\* C3: two rotations carrying the same expected version never leave the user
\* with two DEK rows of one version (the version chain has no duplicate).
C3_NoDuplicateVersion ==
    \A i, j \in DOMAIN deks :
        (i # j /\ deks[i].user_id = deks[j].user_id)
            => deks[i].dek_version # deks[j].dek_version

\* C2 as claimed: a rotation with expected version n is refused with the version
\* conflict (409) and changes no DEK row unless the active version is exactly n;
\* when it goes through, row n is deactivated and a new active row n+1 exists.
C2_RotateConflictUnlessExact ==
    [][\A w \in Workers, n \in Versions :
          /\ race_begin(w, Account, n) =>
                /\ deks' = deks
                /\ ActiveVersions(deks, Account) # {n} =>
                      resp'.status = 409 /\ rot' = rot
          /\ race_commit(w, Account) =>
                /\ ActiveVersions(deks', Account) = {rot[w].expected + 1}
                /\ \E i \in DOMAIN deks :
                      /\ deks[i].dek_version = rot[w].expected
                      /\ ~deks'[i].is_active]_vars

\* C2 amended: a rotation with expected version n is refused and changes no DEK
\* row when the user has no active DEK (400) or when the active DEK it reads has
\* another version (409 at the route's check, an error raised by rotate_dek's
\* own check and answered 500); when it goes through, the row of version n that
\* it read is deactivated, an active row of version n+1 is appended and every
\* other row is as before.
C2_RotateChecked ==
    [][\A w \in Workers, n \in Versions :
          /\ race_begin(w, Account, n) =>
                /\ deks' = deks
                /\ ActiveVersions(deks, Account) = {} =>
                      resp'.status = 400 /\ rot' = rot
                /\ (ActiveVersions(deks, Account) # {}
                      /\ n \notin ActiveVersions(deks, Account)) =>
                      resp'.status = 409 /\ rot' = rot
          /\ race_read(w, Account) =>
                /\ deks' = deks
                /\ (ActiveVersions(deks, Account) # {}
                      /\ rot[w].expected \notin ActiveVersions(deks, Account)) =>
                      rot'[w].at = "raised"
          /\ race_commit(w, Account) =>
                /\ deks[rot[w].cur].dek_version = rot[w].expected
                /\ Len(deks') = Len(deks) + 1
                /\ deks'[Len(deks')] =
                      [user_id |-> Account, dek_version |-> rot[w].expected + 1,
                       is_active |-> TRUE]
                /\ \A i \in DOMAIN deks :
                      deks'[i] = IF i = rot[w].cur
                                 THEN [deks[i] EXCEPT !.is_active = FALSE]
                                 ELSE deks[i]
          /\ race_log(w, Account) =>
                /\ deks' = deks
                /\ resp'.status = IF rot[w].at = "committed" THEN 200 ELSE 500]_vars

\* A rotation went through: version `expected` is inactive, expected + 1 active.
C2_Witness ==
    /\ resp.op = "rotate_keys"
    /\ resp.status = 200
    /\ \E i, j \in DOMAIN deks :
          /\ deks[i].user_id = resp.user_id /\ deks[j].user_id = resp.user_id
          /\ deks[i].dek_version = resp.expected /\ ~deks[i].is_active
          /\ deks[j].dek_version = resp.expected + 1 /\ deks[j].is_active

WasCompleted(t) ==
    \E k \in DOMAIN sessions[t].hist : sessions[t].hist[k] = "completed"

\* C4: a session that is or was completed went pending, scanned, approved,
\* completed in this order; no operation completes a session from another status.
C4_CompletedOnlyViaChain ==
    \A t \in DOMAIN sessions :
        WasCompleted(t) =>
            /\ Len(sessions[t].hist) >= 4
            /\ SubSeq(sessions[t].hist, 1, 4) =
                  <<"pending", "scanned", "approved", "completed">>

C4_Witness ==
    \E t \in DOMAIN sessions :
        /\ sessions[t].status = "completed"
        /\ sessions[t].new_device_id \in Devices
        /\ ~Falsy(sessions[t].wrapped_dek_for_device)

\* C5: for a session whose expires_at has passed (and that has not ended as
\* completed, rejected or expired before), status(token) reports expired
\* and every later approve or complete on the token fails, so the session never
\* becomes approved or completed afterwards.
C5_ExpiredStaysExpired ==
    [][\A t \in DOMAIN sessions :
          sessions[t].past =>
             /\ (/\ sessions[t].status \in {"pending", "scanned", "approved"}
                 /\ pair_status(sessions[t].user_id, t)) =>
                   resp'.session_status = "expired"
             /\ (sessions'[t].status \in {"approved", "completed"}) =>
                   sessions'[t].status = sessions[t].status]_vars

\* C7: once complete(T) has succeeded, every further complete, scan or approve
\* on T fails and changes neither the session, the device authorizations nor the
\* wrapped DEKs.
C7_TokenSingleUse ==
    [][\A u \in Users, t \in DOMAIN sessions :
          (/\ WasCompleted(t)
           /\ \/ pair_complete(u, t)
              \/ \E d \in Devices : pair_scan(u, t, d)
              \/ \E w \in Wraps \cup {EmptyWrap} : pair_approve(u, t, w))
          => /\ resp'.op \in {"pair_complete", "pair_scan", "pair_approve"}
             /\ resp'.status >= 400
             /\ pc' = Idle
             /\ sessions' = sessions
             /\ auths' = auths
             /\ wdeks' = wdeks]_vars

\* A second complete on a completed token was answered with an error.
C7_Witness ==
    /\ resp.op = "pair_complete"
    /\ resp.status = 400
    /\ resp.pairing_token \in DOMAIN sessions
    /\ sessions[resp.pairing_token].status = "completed"
    /\ sessions[resp.pairing_token].user_id = Account

\* C6: complete(T) on an approved session of a user who has an active DEK sets
\* the session to completed, makes the session's new device an active authorized
\* device and stores the approved wrapping as the device's one active
\* DeviceWrappedDEK, at the user's active DEK version.
C6_CompleteAuthorizesAndWraps ==
    [][(pair_complete_wrap /\ ActiveVersions(deks, pc.user_id) # {}) =>
          LET s == sessions'[pc.pairing_token]
              active == get_device_wrapped_dek(wdeks', pc.user_id, s.new_device_id)
          IN /\ s.status = "completed"
             /\ is_device_authorized(auths', pc.user_id, s.new_device_id)
             /\ active # {}
             /\ \A w \in active :
                   /\ w.wrapped_dek = s.wrapped_dek_for_device
                   /\ w.dek_version \in ActiveVersions(deks', pc.user_id)]_vars

ActiveWrapping(tbl, d) == get_device_wrapped_dek(tbl, Account, d) # {}

\* C8: revoke deactivates the device's authorization and its active wrapped DEK
\* in one commit: no step deactivates one of the two and leaves the other
\* active, and when revoke returns both are inactive.
C8_RevokeAtomic ==
    [][\A d \in Devices :
          /\ (is_device_authorized(auths, Account, d)
                /\ ~is_device_authorized(auths', Account, d))
                => ~ActiveWrapping(wdeks', d)
          /\ (ActiveWrapping(wdeks, d) /\ ~ActiveWrapping(wdeks', d))
                => ~is_device_authorized(auths', Account, d)
          /\ (revoke_next /\ pc.device_id = d /\ pc' = Idle)
                => /\ resp'.status = 200
                   /\ ~is_device_authorized(auths', Account, d)
                   /\ ~ActiveWrapping(wdeks', d)]_vars

\* A revoke is at its commit right after a wrapping was stored for the device:
\* the authorization row and the wrapping row are both inactive.
C8_Witness ==
    /\ pc.op = "revoke"
    /\ resp.op = "store_wrapped_dek"
    /\ resp.status = 201
    /\ resp.device_id = pc.device_id
    /\ \E a \in get_device(auths, Account, pc.device_id) : ~a.is_active
    /\ \E w \in wdeks : w.device_id = pc.device_id /\ ~w.is_active
    /\ ~ActiveWrapping(wdeks, pc.device_id)

Revoked(d) == \E a \in get_device(auths, Account, d) : ~a.is_active

\* C9: a restore-keys request from a revoked device never gets the device's own
\* wrapped DEK: it is answered 404 when the user has no active DEK, else with the
\* user-level wrapped DEK, and the device is not reported as authorized.
C9_RestoreAfterRevoke ==
    [][\A d \in Devices :
          (Revoked(d) /\ restore_keys(Account, d)) =>
             IF get_active_dek(deks, Account) = {}
             THEN resp'.status = 404
             ELSE /\ resp'.status = 200
                  /\ resp'.source = "user"
                  /\ resp'.wrapped_dek = IdentityWrapped
                  /\ ~resp'.device_authorized]_vars

\* A revoked device that had a wrapping asked for its keys and got the
\* user-level DEK.
C9_Witness ==
    /\ resp.op = "restore_keys"
    /\ resp.status = 200
    /\ resp.source = "user"
    /\ Revoked(resp.device_id)
    /\ \E w \in wdeks : w.device_id = resp.device_id /\ ~w.is_active

\* Websockets are numbered in the order they connected.
OldestConnected(c) == CHOOSE w \in Sockets(c) : \A x \in Sockets(c) : w <= x

\* C10: a connect that finds MAX_DEVICES_PER_USER live connections (and no other
\* connect or disconnect in between) evicts exactly the oldest-connected one and
\* leaves exactly MAX_DEVICES_PER_USER live connections, the new one among them.
C10_EvictsOldestKeepsFive ==
    [][\A c \in cpc :
          (conns = c.popped /\ connect_admit(c)) =>
             /\ Len(conns') = MAX_DEVICES_PER_USER
             /\ Sockets(conns') =
                   (Sockets(c.before) \ {OldestConnected(c.before)}) \cup {c.ws}]_vars

\* C11: a send attempts every slot of its snapshot, returns (true exactly when
\* a device received the payload), leaves no device that raised in the registry
\* and removes no device that accepted.
C11_SendToEveryDevice ==
    [][send_finish =>
          /\ ~sent'.raised
          /\ sent'.result = (spc.got # {})
          /\ \A slot \in spc.failed : slot.device_id \notin Keys(conns')
          /\ \A i \in DOMAIN conns :
                conns[i] \in spc.got => \E j \in DOMAIN conns' : conns'[j] = conns[i]]_vars

\* The stages in the order sent < delivered < read < expired < deleted.
Stages == <<"sent", "delivered", "read", "expired", "deleted">>
StageOf(st) == CHOOSE k \in DOMAIN Stages : Stages[k] = st

\* C12: a status update whose target stage is not later than the stage stored
\* when the update reads the message is a no-op: status and timestamps of every
\* message stay as they are and nothing is left to be written.
C12_BackwardUpdateIsNoOp ==
    [][\A m \in DOMAIN msgs, status \in MessageStatusEnum :
          (/\ update_message_status(m, status)
           /\ StageOf(status) <= StageOf(msgs[m].status))
          => /\ msgs' = msgs
             /\ upc' = upc
             /\ ulast'.outcome = "noop"]_vars

\* A DELIVERED update found its message READ and did nothing.
C12_Witness ==
    /\ ulast # NoResult
    /\ ulast.status = "delivered"
    /\ ulast.outcome = "noop"
    /\ \A m \in DOMAIN msgs :
          msgs[m].status = "read" /\ msgs[m].read_at # NoTime
    /\ msgs # <<>>

Distinct(seq) == \A i, j \in DOMAIN seq : i # j => seq[i] # seq[j]
Range(seq) == {seq[i] : i \in DOMAIN seq}

C14_StoreDekConflict ==
    [][\A u \in Users, v \in Versions :
          (store_dek(u, v) /\ get_active_dek(deks, u) # {}) =>
             /\ resp' = [op |-> "store_dek", status |-> 409]
             /\ deks' = deks
             /\ rotlog' = rotlog
             /\ pc' = Idle]_vars

\* The conflict was answered to a user whose DEK was created and logged.
C14_Witness ==
    /\ resp = [op |-> "store_dek", status |-> 409]
    /\ \E u \in Users : get_active_dek(deks, u) # {}
    /\ \E i \in DOMAIN rotlog : rotlog[i].rotation_type = "dek_created"

\* C15: approve answers success exactly when the session exists, is scanned and
\* belongs to the caller, and then the session is approved and holds the wrapped
\* DEK that was sent; in every other case it fails and no session changes.
C15_ApproveOnlyScannedByOwner ==
    [][\A u \in Users, t \in Tokens, w \in {"w1", EmptyWrap} :
          (resp'.op = "pair_approve" /\ pair_approve(u, t, w)) =>
             IF /\ t \in DOMAIN sessions
                /\ sessions[t].status = "scanned"
                /\ sessions[t].user_id = u
             THEN /\ resp'.status = 200
                  /\ sessions'[t].status = "approved"
                  /\ sessions'[t].wrapped_dek_for_device = w
                  /\ \A i \in DOMAIN sessions : i # t => sessions'[i] = sessions[i]
             ELSE /\ resp'.status = 400
                  /\ sessions' = sessions]_vars

\* An approve was refused on a session nobody had scanned, which is still
\* pending and holds no wrapped DEK.
C15_Witness ==
    /\ resp.op = "pair_approve"
    /\ resp.status = 400
    /\ resp.pairing_token \in DOMAIN sessions
    /\ sessions[resp.pairing_token].status = "pending"
    /\ sessions[resp.pairing_token].wrapped_dek_for_device = NullValue

\* C16: complete on a session that holds no wrapped DEK is refused with 400 and
\* the request ends there: no session, device authorization or per-device
\* wrapped DEK changes and no later step of the handler is pending.
C16_CompleteWithoutDekFailsClean ==
    [][\A u \in Users, t \in Tokens :
          (/\ t \in DOMAIN sessions
           /\ Falsy(sessions[t].wrapped_dek_for_device)
           /\ pair_complete(u, t)) =>
             /\ resp' = [op |-> "pair_complete", pairing_token |-> t,
                         status |-> 400]
             /\ sessions' = sessions
             /\ auths' = auths
             /\ wdeks' = wdeks
             /\ pc' = Idle]_vars

\* Complete was refused on an approved session whose wrapped DEK is the empty
\* string; the session is still approved and no device is authorized.
C16_Witness ==
    /\ resp.op = "pair_complete"
    /\ resp.status = 400
    /\ resp.pairing_token \in DOMAIN sessions
    /\ sessions[resp.pairing_token].status = "approved"
    /\ sessions[resp.pairing_token].wrapped_dek_for_device = EmptyWrap
    /\ auths = {}
    /\ wdeks = {}
    /\ pc = Idle

\* C17: a scan that answers success found the session pending and not past its
\* expiry, and leaves it scanned with the device's id, public key and
\* fingerprint; a scan of a session that is missing, not pending or past its
\* expiry is refused, stores no device in it and does not make it scanned.
C17_ScanOnlyPendingUnexpired ==
    [][\A u \in Users, t \in Tokens :
          (resp'.op = "pair_scan" /\ pair_scan(u, t, "dA")) =>
             LET fresh == /\ t \in DOMAIN sessions
                          /\ sessions[t].status = "pending"
                          /\ ~sessions[t].past
             IN /\ resp'.status = 200 => fresh
                /\ (resp'.status = 200 \/ \E i \in DOMAIN sessions :
                                             sessions'[i].status = "scanned"
                                             /\ sessions[i].status # "scanned")
                      => /\ fresh
                         /\ sessions'[t].status = "scanned"
                         /\ sessions'[t].new_device_id = "dA"
                         /\ sessions'[t].new_device_public_key = PubKeyOf("dA")
                         /\ sessions'[t].new_device_fingerprint =
                               fingerprint(PubKeyOf("dA"))
                /\ ~fresh =>
                      /\ resp'.status = 400
                      /\ \A i \in DOMAIN sessions :
                            /\ sessions'[i].status = "scanned"
                                  <=> sessions[i].status = "scanned"
                            /\ sessions'[i].new_device_id = sessions[i].new_device_id
                            /\ sessions'[i].new_device_public_key =
                                  sessions[i].new_device_public_key
                            /\ sessions'[i].new_device_fingerprint =
                                  sessions[i].new_device_fingerprint]_vars

\* A scan succeeded: a session that has not expired is scanned and holds the
\* scanning device's id, public key and fingerprint.
C17_Witness ==
    /\ resp = [op |-> "pair_scan", status |-> 200]
    /\ \E t \in DOMAIN sessions :
          /\ sessions[t].hist = <<"pending", "scanned">>
          /\ ~sessions[t].past
          /\ sessions[t].new_device_id = "dA"
          /\ sessions[t].new_device_public_key = PubKeyOf("dA")
          /\ sessions[t].new_device_fingerprint = fingerprint(PubKeyOf("dA"))

ActiveSessions(u) ==
    {i \in DOMAIN sessions :
        /\ sessions[i].user_id = u
        /\ sessions[i].status \notin {"completed", "expired", "rejected"}}

\* C18: a user never has more than one pairing session that has not reached
\* completed, expired or rejected.
C18_AtMostOneActiveSession ==
    \A u \in Users : Cardinality(ActiveSessions(u)) <= 1

\* C19: a session whose status is expired or rejected keeps that status in
\* every step.
C19_ExpiredRejectedTerminal ==
    [][\A t \in DOMAIN sessions :
          sessions[t].status \in {"expired", "rejected"} =>
             sessions'[t].status = sessions[t].status]_vars

\* C20: a disconnect of a websocket removes the slot of its device id and
\* leaves every other slot of the user as it was, and the offline presence of
\* the user is sent only while the user has no slot.
C20_DisconnectRemovesOneSlot ==
    [][/\ \A h \in handlers : disconnect(h) => conns' = Pop(conns, h.device_id)
       /\ (broadcast_offline /\ presence'.last = "offline") => conns = <<>>]_vars

\* C21: every message payload that reaches a device of the recipient carries
\* the id of a stored message row.
C21_StoredBeforeTransport ==
    [][\A w \in wire' \ wire : w.message_id \in DOMAIN msgs]_vars

Retrying(m) == \E t \in tasks : t.message_id = m /\ t.at = "retry"

Pending(tbl) ==
    {m \in DOMAIN tbl : tbl[m].status = "sent" /\ tbl[m].delivered_at = NoTime}

\* C23: every connect starts the flush of the stored messages that are still
\* sent.  When the sender is a contact, the flush changes no row at the fetch,
\* queues each of these messages, sends them one by one, and marks delivered
\* only messages that a device accepted in this flush; when the sender is no
\* contact, the fetch marks each of them delivered and the flush sends none.
C23_FlushBySenderClass ==
    /\ [][(\E d \in ClientIds : connect_deliver(d)) => flush'.at = "fetch"]_vars
    /\ [][flush_fetch =>
            /\ wire' = wire
            /\ flush'.contact = friend
            /\ IF friend
               THEN /\ msgs' = msgs
                    /\ flush'.todo = Ordered(Pending(msgs))
               ELSE /\ flush'.todo = <<>>
                    /\ \A m \in DOMAIN msgs :
                          IF m \in Pending(msgs)
                          THEN /\ msgs'[m].status = "delivered"
                               /\ msgs'[m].delivered_at # NoTime
                          ELSE msgs'[m] = msgs[m]]_vars
    /\ [][flush_send =>
            /\ flush.contact
            /\ msgs' = msgs
            /\ wire' \ wire \subseteq
                  {[message_id |-> Head(flush.todo), by |-> "pending"]}]_vars
    /\ [][flush_mark =>
            \A m \in DOMAIN msgs :
               msgs'[m] # msgs[m] =>
                  /\ flush.contact
                  /\ [message_id |-> m, by |-> "pending"] \in wire
                  /\ msgs'[m].status = "delivered"]_vars
    /\ [][\A w \in wire' \ wire : w.by = "pending" => flush_send]_vars

\* A connect found a stored message of a sender who is no contact any more: the
\* row is marked delivered, nothing is queued for sending and no device has
\* received it.
C23_Witness ==
    /\ flush.at = "send"
    /\ ~flush.contact
    /\ flush.skipped # {}
    /\ flush.todo = <<>>
    /\ \A m \in flush.skipped :
          /\ msgs[m].status = "delivered"
          /\ \A w \in wire : w.message_id # m

\* C24: a presence update about the user goes to the users of the cached
\* contact set only; while the cache is empty it goes to every connected user,
\* and that happens once: no update takes the fallback after an earlier one did.
C24_PresenceToContactsOnly ==
    [][fanout' # fanout =>
          /\ contact_cache # {} => fanout'.to \subseteq contact_cache
          /\ contact_cache = {} =>
                /\ fanout'.to = Connected
                /\ fanout.fallbacks = 0]_vars

\* C25: a registered connection whose client leaves a probe unanswered is in
\* the end closed and removed from the registry, also while its transport
\* takes the frames sent to it.
C25_ZombieRemoved ==
    \A w \in 1..MaxPingConnects :
       (/\ w \in DOMAIN peers
        /\ w \in Sockets(conns)
        /\ peers[w].silent
        /\ peers[w].unanswered > 0)
          ~> (w \notin Sockets(conns))

\* C26: when a reject or an end removes a call from the call state, a call-log
\* row of that call is already stored; an offer to a callee without a
\* connection sends call_failed to the caller and stores no call.
C26_LogBeforeRemoval ==
    /\ [][\A c \in CallIds :
            (/\ c \in DOMAIN active_calls
             /\ c \notin DOMAIN active_calls'
             /\ \/ handle_call_reject(c)
                \/ \E by \in {Sender, Recipient} : handle_call_end(c, by))
               => \E i \in DOMAIN call_logs : call_logs[i].call_id = c]_vars
    /\ [][\A c \in CallIds, call_type \in ClientCallTypes :
            (conns = <<>> /\ handle_call_offer(c, call_type))
               => /\ callout' = [type |-> "call_failed", call_id |-> c]
                  /\ active_calls' = active_calls]_vars

\* C27: every (user, device) has at most one active per-device wrapping, and
\* a successful store of a wrapping for a device leaves that device with the
\* inserted row as its one active wrapping and the rows of the other devices
\* as they were.
C27_OneActiveWrapping ==
    /\ [](\A u \in Users, d \in Devices :
            Cardinality(get_device_wrapped_dek(wdeks, u, d)) <= 1)
    /\ [][\A d \in Devices, v \in Versions :
            (/\ resp'.op = "store_wrapped_dek"
             /\ resp'.status = 201
             /\ store_wrapped_dek(Account, d, "w1", v))
               => /\ get_device_wrapped_dek(wdeks', Account, d) =
                        {[user_id |-> Account, device_id |-> d, dek_version |-> v,
                          is_active |-> TRUE, wrapped_dek |-> "w1"]}
                  /\ {x \in wdeks' : x.device_id # d} =
                        {x \in wdeks : x.device_id # d}]_vars

\* A wrapping was stored for a device that had an active one, while the other
\* device holds an active wrapping too.
C27_Witness ==
    /\ resp.op = "store_wrapped_dek"
    /\ resp.status = 201
    /\ \E x \in wdeks : x.device_id = resp.device_id /\ ~x.is_active
    /\ \E x \in wdeks : x.device_id = resp.device_id /\ x.is_active
    /\ \E x \in wdeks : x.device_id # resp.device_id /\ x.is_active

\* C28: in every state, the dek_version of every per-device wrapping is the
\* dek_version of a DEK row of the same user.
C28_WrappingReferencesDek ==
    \A w \in wdeks :
       \E i \in DOMAIN deks :
          /\ deks[i].user_id = w.user_id
          /\ deks[i].dek_version = w.dek_version

\* C29: every DEK row a create or a rotation inserts has a dek_version greater
\* than every dek_version stored for its user before, and every row stored
\* before is still there, with its user and its version.
C29_VersionsIncrease ==
    [][/\ Len(deks') >= Len(deks)
       /\ \A j \in DOMAIN deks :
             /\ deks'[j].user_id = deks[j].user_id
             /\ deks'[j].dek_version = deks[j].dek_version
       /\ \A i \in DOMAIN deks' \ DOMAIN deks :
             \A j \in DOMAIN deks :
                deks[j].user_id = deks'[i].user_id
                   => deks'[i].dek_version > deks[j].dek_version]_vars

\* C30: the handler of a DEK create, of a DEK rotation and of a per-device wrap
\* that went through has appended an entry to the key-rotation log when it
\* responds, and no step changes or removes an entry of the log.
C30_AuditAppendOnly ==
    /\ [][/\ Len(rotlog') >= Len(rotlog)
           /\ \A i \in DOMAIN rotlog : rotlog'[i] = rotlog[i]]_vars
    /\ [][(store_dek_log \/ rotate_keys_log) => Len(rotlog') = Len(rotlog) + 1]_vars
    /\ [][\A d \in Devices, v \in Versions :
            (/\ resp'.op = "store_wrapped_dek"
             /\ resp'.status = 201
             /\ store_wrapped_dek(Account, d, "w1", v))
               => Len(rotlog') = Len(rotlog) + 1]_vars
    /\ [][(pair_complete_wrap /\ resp'.status = 200)
             => Len(rotlog') = Len(rotlog) + 1]_vars

\* C31: a DEK store or a key rotation that is refused or fails has appended an
\* audit entry with success = false when it responds; so has a rotation
\* refused because its expected version is not the active one.
C31_FailureIsAudited ==
    [][\A u \in Users, n \in Versions :
          (/\ resp'.status >= 400
           /\ \/ store_dek(u, n)
              \/ rotate_keys(u, n)
              \/ rotate_keys_log)
             => /\ Len(rotlog') = Len(rotlog) + 1
                /\ ~rotlog'[Len(rotlog')].success]_vars

C33_SendSurvivesMutation ==
    [][(send_finish /\ spc.got \cup spc.failed # {conns[i] : i \in DOMAIN conns})
          => /\ ~sent'.raised
             /\ sent'.result \in BOOLEAN]_vars

\* C34: no step of a writer of message status (the status updates after a
\* send and a retry, the read receipt, the batch update of the reconnect flush)
\* moves the stored status of a message to an earlier stage.
C34_StatusNeverRegresses ==
    [][\A m \in DOMAIN msgs :
          StageOf(msgs'[m].status) >= StageOf(msgs[m].status)]_vars

\* C35: between two requests, a device whose authorization was activated by
\* the completion of a pairing has an active per-device wrapped DEK.
C35_AuthorizedHasWrapping ==
    (pc = Idle /\ is_device_authorized(auths, Account, "dB"))
       => get_device_wrapped_dek(wdeks, Account, "dB") # {}

\* C36: the user never has more than MAX_DEVICES_PER_USER device slots.
C36_AtMostFiveSlots == Len(conns) <= MAX_DEVICES_PER_USER

\* C37: the exit of an endpoint and the pruning of a send do not remove a slot
\* that is held by another websocket than the one that closed or failed: a
\* slot taken over by a reconnect under the same device id stays.
C37_SlotRemovedByOccupantOnly ==
    /\ [][\A h \in handlers :
             disconnect(h) =>
                \A i \in DOMAIN conns :
                   (conns[i].device_id = h.device_id /\ conns[i].ws # h.ws)
                      => \E j \in DOMAIN conns' : conns'[j] = conns[i]]_vars
    /\ [][send_finish =>
             \A i \in DOMAIN conns :
                (/\ \E slot \in spc.failed : slot.device_id = conns[i].device_id
                 /\ conns[i] \notin spc.failed)
                   => \E j \in DOMAIN conns' : conns'[j] = conns[i]]_vars

\* C38: a scan refused with 403 because the session belongs to another account
\* than the caller's leaves every session as it was.
C38_ForeignScanChangesNothing ==
    [][\A u \in Users, t \in Tokens, d \in Devices :
          (/\ resp'.op = "pair_scan"
           /\ resp'.status = 403
           /\ pair_scan(u, t, d))
             => sessions' = sessions]_vars

\* C39: a revoke that targets the only active device of the user is refused
\* with 400 and changes no table, and no step takes the last active authorized
\* device from a user who has one.
C39_LastDeviceStays ==
    /\ [][\A d \in Devices, rotate \in Booleans :
             (/\ get_authorized_devices(auths, Account)
                    = {[user_id |-> Account, device_id |-> d, is_active |-> TRUE]}
              /\ revoke(Account, d, rotate))
                => /\ resp' = [op |-> "revoke", device_id |-> d, status |-> 400]
                   /\ UNCHANGED <<deks, rotlog, sessions, auths, wdeks, pc>>]_vars
    /\ [][get_authorized_devices(auths, Account) # {}
             => get_authorized_devices(auths', Account) # {}]_vars

\* The revoke of the one device that is left was refused, after another device
\* of the user had been revoked.
C39_Witness ==
    /\ resp.op = "revoke"
    /\ resp.status = 400
    /\ Cardinality(get_authorized_devices(auths, Account)) = 1
    /\ \E a \in get_authorized_devices(auths, Account) : a.device_id = resp.device_id
    /\ \E a \in auths : a.user_id = Account /\ ~a.is_active

\* C40: a call_end frame from a user who is neither the caller nor the callee
\* of the call leaves the call state as it was and leaves no call log to be
\* written and no notification to be sent.
C40_OutsiderChangesNoCall ==
    [][\A c \in CallIds :
          handle_call_end(c, Bystander)
             => UNCHANGED <<active_calls, call_logs, calltasks, callout>>]_vars

====
